---------------------------- MODULE Spec2Model ----------------------------
(***************************************************************************)
(* pyMilk: the symmetry / axis transform engine (pyMilk/util/img_shapes.py)*)
(* and the stream handle SHM (pyMilk/interfacing/isio_shmlib.py).          *)
(*                                                                         *)
(* An n-dimensional array is a record [shape, dtype, at]: shape is the     *)
(* tuple of axis lengths, at maps every 0-based index tuple to the element *)
(* stored there.  A raised exception is a record [err |-> <name>].         *)
(***************************************************************************)
EXTENDS Integers, Sequences, FiniteSets, TLC

VARIABLES
    xf,         \* transform engine under test: input array, codes, history, value
    file,       \* inode of the file <MILK_SHM_DIR>/<name>.im.shm, 0 when absent
    res,        \* every resource ever created, by inode: md, data, keywords, semaphores
    hd,         \* the fields of each SHM object
    pc,         \* where each SHM object's caller stands inside a call
    call,       \* the arguments (and what it saw so far) of the call in progress
    ret,        \* the call that completed last: arguments, outcome, returned value
    fps         \* the parameter trees: file, resources, FPS objects, calls, last result

xfVars == <<xf>>
shmVars == <<file, res, hd, pc, call, ret>>
vars == <<xf, file, res, hd, pc, call, ret, fps>>

(***************************************************************************)
(* Bounds of the model.                                                    *)
(***************************************************************************)
\* longest axis of an array drawn as input
MaxAxis == 3

(***************************************************************************)
(* numpy arrays                                                            *)
(***************************************************************************)
Raise(name) == [err |-> name]

IsErr(v) == "err" \in DOMAIN v

MaxOf(S) == IF S = {} THEN 0 ELSE CHOOSE m \in S : \A n \in S : n <= m

\* every index tuple of an array of this shape (0-based, as in numpy)
Indices(shape) ==
    LET top == MaxOf({shape[k] : k \in DOMAIN shape})
    IN  {idx \in [DOMAIN shape -> 0..(top - 1)] :
            \A k \in DOMAIN shape : idx[k] < shape[k]}

\* C-order position of an index tuple
RECURSIVE LinPos(_, _, _)
LinPos(shape, idx, k) ==
    IF k = 0 THEN 0 ELSE LinPos(shape, idx, k - 1) * shape[k] + idx[k]

\* the array of the given shape whose element at C-order position p is base + p
Ramp(shape, dtype, base) ==
    [shape |-> shape, dtype |-> dtype,
     at |-> [idx \in Indices(shape) |-> base + LinPos(shape, idx, Len(shape))]]

\* np.transpose(a, perm): axis m of the result is axis perm[m] of a
np_transpose(a, perm) ==
    LET sh == [m \in DOMAIN perm |-> a.shape[perm[m]]]
        src(idx) == [o \in DOMAIN perm |->
                        idx[CHOOSE m \in DOMAIN perm : perm[m] = o]]
    IN  [shape |-> sh, dtype |-> a.dtype,
         at |-> [idx \in Indices(sh) |-> a.at[src(idx)]]]

\* a[..., ::-1, ...] on every axis of the set axes (1-based axis numbers)
np_flip(a, axes) ==
    [shape |-> a.shape, dtype |-> a.dtype,
     at |-> [idx \in Indices(a.shape) |->
                a.at[[k \in DOMAIN idx |->
                        IF k \in axes THEN a.shape[k] - 1 - idx[k] ELSE idx[k]]]]]

\* list[s] on a Python list of 8 entries: negative s counts from the end
PyIndex8(table, s) ==
    IF s >= 0 /\ s < 8 THEN table[s + 1]
    ELSE IF s < 0 /\ s >= -8 THEN table[s + 9]
    ELSE -100

(***************************************************************************)
(* img_shapes.py: 2D symmetry codes                                        *)
(***************************************************************************)
InvSymcode == <<0, 1, 2, 3, 4, 6, 5, 7>>

RECURSIVE image_encode(_, _)
image_encode(im, s) ==
    IF s > 3 /\ s <= 7 THEN image_encode(np_transpose(im, <<2, 1>>), s - 4)
    ELSE IF s = 0 THEN im
    ELSE IF s = 1 THEN np_flip(im, {1})
    ELSE IF s = 2 THEN np_flip(im, {2})
    ELSE IF s = 3 THEN np_flip(im, {1, 2})
    ELSE Raise("ValueError")

image_decode_sameCode(x, s) == image_encode(x, s)

image_decode(x, s) ==
    IF PyIndex8(InvSymcode, s) = -100 THEN Raise("IndexError")
    ELSE image_encode(x, PyIndex8(InvSymcode, s))

(***************************************************************************)
(* img_shapes.py: cubes, the stack axis first (front) or last (back)       *)
(***************************************************************************)
RECURSIVE cube_front_image_encode(_, _)
cube_front_image_encode(cube, s) ==
    IF s > 3 THEN cube_front_image_encode(np_transpose(cube, <<1, 3, 2>>), s - 4)
    ELSE IF s = 0 THEN cube
    ELSE IF s = 1 THEN np_flip(cube, {2})
    ELSE IF s = 2 THEN np_flip(cube, {3})
    ELSE IF s = 3 THEN np_flip(cube, {2, 3})
    ELSE Raise("ValueError")

cube_front_image_decode(cube, s) ==
    IF PyIndex8(InvSymcode, s) = -100 THEN Raise("IndexError")
    ELSE cube_front_image_encode(cube, PyIndex8(InvSymcode, s))

RECURSIVE cube_back_image_encode(_, _)
cube_back_image_encode(cube, s) ==
    IF s > 3 THEN cube_back_image_encode(np_transpose(cube, <<2, 1, 3>>), s - 4)
    ELSE IF s = 0 THEN cube
    ELSE IF s = 1 THEN np_flip(cube, {1})
    ELSE IF s = 2 THEN np_flip(cube, {2})
    ELSE IF s = 3 THEN np_flip(cube, {1, 2})
    ELSE Raise("ValueError")

cube_back_image_decode(cube, s) ==
    IF PyIndex8(InvSymcode, s) = -100 THEN Raise("IndexError")
    ELSE cube_back_image_encode(cube, PyIndex8(InvSymcode, s))

(***************************************************************************)
(* img_shapes.py: 3D rolls                                                 *)
(***************************************************************************)
LAST2LAST == 0
LAST2FRONT == 1
FRONT2FRONT == 2
FRONT2LAST == 3

\* np.moveaxis(cube, 2, 0)
cube_roll_forw(cube) == np_transpose(cube, <<3, 1, 2>>)

\* np.moveaxis(cube, 0, 2)
cube_roll_back(cube) == np_transpose(cube, <<2, 3, 1>>)

full_cube_encode(cube, s, tri_dim) ==
    LET sym == IF tri_dim \in {FRONT2FRONT, FRONT2LAST}
               THEN cube_front_image_encode(cube, s)
               ELSE cube_back_image_encode(cube, s)
    IN  IF IsErr(sym) THEN sym
        ELSE IF tri_dim = LAST2FRONT THEN cube_roll_forw(sym)
        ELSE IF tri_dim = FRONT2LAST THEN cube_roll_back(sym)
        ELSE sym

full_cube_decode_sameRoll(cube, s, tri_dim) ==
    LET rolled == IF tri_dim = LAST2FRONT THEN cube_roll_forw(cube)
                  ELSE IF tri_dim = FRONT2LAST THEN cube_roll_back(cube)
                  ELSE cube
    IN  IF tri_dim \in {FRONT2LAST, FRONT2FRONT}
        THEN cube_front_image_decode(rolled, s)
        ELSE cube_back_image_decode(rolled, s)

full_cube_decode(cube, s, tri_dim) ==
    LET rolled == IF tri_dim = LAST2FRONT THEN cube_roll_back(cube)
                  ELSE IF tri_dim = FRONT2LAST THEN cube_roll_forw(cube)
                  ELSE cube
    IN  IF tri_dim \in {FRONT2LAST, FRONT2FRONT}
        THEN cube_front_image_decode(rolled, s)
        ELSE cube_back_image_decode(rolled, s)

(***************************************************************************)
(* img_shapes.py: squeeze / unsqueeze slices.  A slice tuple is a sequence *)
(* of "all" (slice(None)), "0" and "None"; Ellipsis is <<"...">>.          *)
(***************************************************************************)
Ellipsis == <<"...">>

\* the slices with the write slice made like the read slice
gen_squeeze_unsqueeze_slices_sameSlice(shape_orig, autoSqueeze) ==
    IF ~autoSqueeze THEN <<Ellipsis, Ellipsis>>
    ELSE <<[k \in DOMAIN shape_orig |-> IF shape_orig[k] # 1 THEN "all" ELSE "0"],
           [k \in DOMAIN shape_orig |-> IF shape_orig[k] # 1 THEN "all" ELSE "0"]>>

gen_squeeze_unsqueeze_slices(shape_orig, autoSqueeze) ==
    IF ~autoSqueeze THEN <<Ellipsis, Ellipsis>>
    ELSE <<[k \in DOMAIN shape_orig |-> IF shape_orig[k] # 1 THEN "all" ELSE "0"],
           [k \in DOMAIN shape_orig |-> IF shape_orig[k] # 1 THEN "all" ELSE "None"]>>

\* the axes of a[items]: the axis of a each one comes from, 0 for an inserted axis
RECURSIVE SliceAxes(_, _, _)
SliceAxes(items, j, k) ==
    IF j > Len(items) THEN <<>>
    ELSE IF items[j] = "None" THEN <<0>> \o SliceAxes(items, j + 1, k)
    ELSE IF items[j] = "all" THEN <<k>> \o SliceAxes(items, j + 1, k + 1)
    ELSE SliceAxes(items, j + 1, k + 1)

\* numpy basic indexing a[items]
np_getitem(a, items) ==
    IF items = Ellipsis THEN a
    ELSE
        LET used == Cardinality({j \in DOMAIN items : items[j] # "None"})
            n == Len(a.shape)
            axes == SliceAxes(items, 1, 1) \o [m \in 1..(n - used) |-> used + m]
            sh == [m \in DOMAIN axes |-> IF axes[m] = 0 THEN 1 ELSE a.shape[axes[m]]]
            src(idx) == [k \in 1..n |->
                            IF \E m \in DOMAIN axes : axes[m] = k
                            THEN idx[CHOOSE m \in DOMAIN axes : axes[m] = k]
                            ELSE 0]
        IN  IF used > n THEN Raise("IndexError")
            ELSE [shape |-> sh, dtype |-> a.dtype,
                  at |-> [idx \in Indices(sh) |-> a.at[src(idx)]]]

\* np.zeros_like(a)
np_zeros_like(a) == [a EXCEPT !.at = [i \in DOMAIN @ |-> 0]]

\* numpy basic assignment a[items] = value, value broadcast to the shape of
\* a[items]; the result is a afterwards
np_setitem(a, items, value) ==
    LET where == np_getitem([shape |-> a.shape, dtype |-> "intp",
                             at |-> [i \in Indices(a.shape) |-> i]], items)
        nv == Len(value.shape)
        nt == Len(where.shape)
        fits == \A k \in 1..nv :
                    IF k + nt - nv < 1 THEN value.shape[k] = 1
                    ELSE value.shape[k] \in {1, where.shape[k + nt - nv]}
        from(v) == [k \in 1..nv |->
                       IF value.shape[k] = 1 THEN 0 ELSE v[k + nt - nv]]
    IN  IF IsErr(where) THEN where
        ELSE IF ~fits THEN Raise("ValueError")
        ELSE [a EXCEPT !.at =
                 [t \in DOMAIN @ |->
                     IF \E v \in Indices(where.shape) : where.at[v] = t
                     THEN value.at[from(CHOOSE v \in Indices(where.shape) :
                                           where.at[v] = t)]
                     ELSE @[t]]]

\* np.squeeze(data).shape
SqueezedShape(shape) == SelectSeq(shape, LAMBDA n : n # 1)

(***************************************************************************)
(* isio_shmlib.py: the stream (the file, the resource behind it) and the   *)
(* SHM object.  One stream name is modelled.  IMAGE is the inode of the    *)
(* resource the object's Image is attached to, 0 when it is attached to    *)
(* none; semID is -1 for None.                                             *)
(***************************************************************************)
Handles == {"w", "r"}

\* semaphores of a resource (ImageStreamIO allocates a fixed number per stream)
NSem == 2

\* keyword slots of a stream when the constructor is not told (the default of
\* the nbkw argument)
nbkw == 50

\* the resource IMAGE.create makes from wire-side data data_c.  user and by record
\* the python-side array last handed to the stream and the handle that gave it.
NewResource(data_c, user, by) ==
    [size |-> data_c.shape, dtype |-> data_c.dtype, data |-> data_c,
     cnt0 |-> 0, sem |-> [i \in 0..(NSem - 1) |-> 0], kws |-> <<>>,
     NBkw |-> nbkw, user |-> user, by |-> by]

NoHandle ==
    [built |-> FALSE, IMAGE |-> 0, semID |-> -1, location |-> -1, symcode |-> 0,
     triDimState |-> 0, nptype |-> "", shape_c |-> <<>>, shape |-> <<>>, nDim |-> 0,
     readSlice |-> Ellipsis, writeSlice |-> Ellipsis]

NoCall == [op |-> "none"]

\* no call has completed since the last one began
NoRet == [op |-> "none", exc |-> "none"]

\* _init_internals_creation: the wire-side array of python-side data
CreationData(data, symcode, triDim) ==
    IF Len(data.shape) <= 1 THEN data
    ELSE IF Len(data.shape) = 2 THEN image_encode(data, symcode)
    ELSE IF Len(data.shape) = 3 THEN full_cube_encode(data, symcode, triDim)
    ELSE Raise("NotImplementedError")

\* SHM.__init__ with data (the fields set before any native call) and
\* _init_internals_creation
init_internals_creation(data, location, symcode, triDim) ==
    [built |-> TRUE, IMAGE |-> 0, semID |-> -1, location |-> location,
     symcode |-> symcode, triDimState |-> triDim,
     nptype |-> data.dtype, shape |-> data.shape, nDim |-> Len(data.shape),
     readSlice |-> gen_squeeze_unsqueeze_slices(data.shape, FALSE)[1],
     writeSlice |-> gen_squeeze_unsqueeze_slices(data.shape, FALSE)[2],
     shape_c |-> CreationData(data, symcode, triDim).shape]

\* the user shape _init_internals_read derives from wire-side data
ReadShape(data, autoSqueeze, symcode, triDim) ==
    LET sq == IF autoSqueeze THEN SqueezedShape(data.shape) ELSE data.shape
        sl == gen_squeeze_unsqueeze_slices(data.shape, autoSqueeze)[1]
    IN  IF Len(sq) = 2 THEN image_decode(np_getitem(data, sl), symcode).shape
        ELSE IF Len(sq) = 3
             THEN full_cube_decode(np_getitem(data, sl), symcode, triDim).shape
        ELSE sq

\* SHM.__init__ without data, after a successful open of inode ino, and
\* _init_internals_read on the copy of its data
init_internals_read(ino, semID, data, location, autoSqueeze, symcode, triDim) ==
    [built |-> TRUE, IMAGE |-> ino, semID |-> semID, location |-> location,
     symcode |-> symcode, triDimState |-> triDim,
     nptype |-> data.dtype, shape_c |-> data.shape,
     shape |-> ReadShape(data, autoSqueeze, symcode, triDim),
     nDim |-> Len(IF autoSqueeze THEN SqueezedShape(data.shape) ELSE data.shape),
     readSlice |-> gen_squeeze_unsqueeze_slices(data.shape, autoSqueeze)[1],
     writeSlice |-> gen_squeeze_unsqueeze_slices(data.shape, autoSqueeze)[2]]

\* the read-side transform with the cube axes left where they are
DecodeForUser_noRoll(h, wire) ==
    LET cut == np_getitem(wire, hd[h].readSlice)
    IN  IF IsErr(cut) THEN cut
        ELSE IF hd[h].nDim = 2 THEN image_decode(cut, hd[h].symcode)
        ELSE IF hd[h].nDim = 3
             THEN full_cube_decode(cut, hd[h].symcode, LAST2LAST)
        ELSE cut

\* the read-side transform of get_data on wire-side data
DecodeForUser(h, wire) ==
    LET cut == np_getitem(wire, hd[h].readSlice)
    IN  IF IsErr(cut) THEN cut
        ELSE IF hd[h].nDim = 2 THEN image_decode(cut, hd[h].symcode)
        ELSE IF hd[h].nDim = 3
             THEN full_cube_decode(cut, hd[h].symcode, hd[h].triDimState)
        ELSE cut

\* the write-side transform of set_data on python-side data
EncodeForWire(h, data) ==
    LET enc == IF hd[h].nDim = 2 THEN image_encode(data, hd[h].symcode)
               ELSE IF hd[h].nDim = 3
                    THEN full_cube_encode(data, hd[h].symcode, hd[h].triDimState)
               ELSE data
    IN  IF IsErr(enc) THEN enc ELSE np_getitem(enc, hd[h].writeSlice)

AllIdle == \A h \in Handles : pc[h] = "idle"

\* a call of handle h completes: its record becomes the last completed call
Finish(h, record) ==
    /\ pc' = [pc EXCEPT ![h] = "idle"]
    /\ call' = [call EXCEPT ![h] = NoCall]
    /\ ret' = record

(***************************************************************************)
(* isio_shmlib.py: keywords.  The keyword list of a resource is a sequence *)
(* of [name, value, comment]; a dictionary argument is a sequence of       *)
(* [name, value, comment] in insertion order, names distinct, comment      *)
(* "<none>" when the entry gives no comment.                               *)
(***************************************************************************)
NoComment == "<none>"

KwNames(kws) == [i \in DOMAIN kws |-> kws[i].name]

NamesOf(kws) == {kws[i].name : i \in DOMAIN kws}

\* list.index(name)
IndexOf(names, name) == CHOOSE i \in DOMAIN names :
                            names[i] = name /\ \A j \in 1..(i - 1) : names[j] # name

Image_kw(name, value, comment) == [name |-> name, value |-> value, comment |-> comment]

\* _kw_opt_comment_unpacker
kw_opt_comment_unpacker(entry) ==
    IF entry.comment = NoComment THEN <<entry.value, "">>
    ELSE <<entry.value, entry.comment>>

\* the loop of set_keywords over kw_dict[1..n], on the list read first
RECURSIVE MergeKeywords(_, _, _, _)
MergeKeywords(kws, kws_names, kw_dict, n) ==
    IF n = 0 THEN kws
    ELSE
        LET done == MergeKeywords(kws, kws_names, kw_dict, n - 1)
            e == kw_dict[n]
            vc == kw_opt_comment_unpacker(e)
        IN  IF \E i \in DOMAIN kws_names : kws_names[i] = e.name
            THEN [done EXCEPT ![IndexOf(kws_names, e.name)] =
                                  Image_kw(e.name, vc[1], vc[2])]
            ELSE Append(done, Image_kw(e.name, vc[1], vc[2]))

\* the dictionary reset_keywords hands to IMAGE.set_kws, as the list it stores
FreshKeywords(kw_dict) ==
    [i \in DOMAIN kw_dict |->
        Image_kw(kw_dict[i].name, kw_opt_comment_unpacker(kw_dict[i])[1],
                 kw_opt_comment_unpacker(kw_dict[i])[2])]

\* _get_keywords_nofail on the resource handle h is attached to
get_keywords_nofail(h, comments) ==
    LET kws == res[hd[h].IMAGE].kws
        last(name) == CHOOSE i \in DOMAIN kws :
                          kws[i].name = name /\ \A j \in (i + 1)..Len(kws) : kws[j].name # name
    IN  [name \in NamesOf(kws) |->
            IF comments THEN <<kws[last(name)].value, kws[last(name)].comment>>
            ELSE kws[last(name)].value]

(***************************************************************************)
(* Keyword calls.  Each call that reads the list first (IMAGE.get_kws_list)*)
(* and stores it afterwards (IMAGE.set_kws_list) takes two steps.          *)
(***************************************************************************)
\* longest dictionary handed to set_keywords / reset_keywords
MaxDict == 2

\* n_tries of get_keywords
NTries == 4

KwNameSet == {"yo", "toto", "roger"}
KwValueSet == {17, 13}
KwCommentSet == {NoComment, "un commentaire"}

\* the entries a dictionary argument may hold: a bare value, or (value, comment)
KwEntries ==
    {[name |-> n, value |-> vc[1], comment |-> vc[2]] :
        n \in KwNameSet,
        vc \in {<<17, NoComment>>, <<13, NoComment>>, <<13, "un commentaire">>}}

KwDicts ==
    UNION {{d \in [1..n -> KwEntries] :
                \A i, j \in 1..n : i # j => d[i].name # d[j].name} : n \in 0..MaxDict}

\* set_keywords: kws = self.IMAGE.get_kws_list()
SetKeywordsRead(h, kw_dict) ==
    /\ pc[h] = "idle"
    /\ hd[h].IMAGE # 0
    /\ pc' = [pc EXCEPT ![h] = "set_keywords"]
    /\ call' = [call EXCEPT ![h] = [op |-> "set_keywords", kw_dict |-> kw_dict,
                                    kws |-> res[hd[h].IMAGE].kws]]
    /\ ret' = NoRet
    /\ UNCHANGED <<xf, fps, file, res, hd>>

SetKeywordsResult_replaceAll(kws, kw_dict) == FreshKeywords(kw_dict)

SetKeywordsResult_keepComment(kws, kw_dict) ==
    LET m == MergeKeywords(kws, KwNames(kws), kw_dict, Len(kw_dict))
    IN  [i \in DOMAIN m |->
            IF i \in DOMAIN kws /\ \E j \in DOMAIN kw_dict :
                    kw_dict[j].name = m[i].name /\ kw_dict[j].comment = NoComment
            THEN [m[i] EXCEPT !.comment = kws[i].comment]
            ELSE m[i]]

\* set_keywords: the list its loop builds from the list it read
SetKeywordsResult(kws, kw_dict) ==
    MergeKeywords(kws, KwNames(kws), kw_dict, Len(kw_dict))

\* set_keywords: the loop, then self.IMAGE.set_kws_list(kws)
SetKeywordsWrite(h) ==
    /\ pc[h] = "set_keywords"
    /\ res' = [res EXCEPT ![hd[h].IMAGE].kws =
                   SetKeywordsResult(call[h].kws, call[h].kw_dict)]
    /\ Finish(h, [op |-> "set_keywords", exc |-> "none",
                  inplace |-> Cardinality({j \in DOMAIN call[h].kw_dict :
                                  call[h].kw_dict[j].name \in NamesOf(call[h].kws)}),
                  appended |-> Cardinality({j \in DOMAIN call[h].kw_dict :
                                  call[h].kw_dict[j].name \notin NamesOf(call[h].kws)}),
                  held |-> Len(call[h].kws)])
    /\ UNCHANGED <<xf, fps, file, hd>>

ResetKeywordsResult_merge(kws, kw_dict) ==
    MergeKeywords(kws, KwNames(kws), kw_dict, Len(kw_dict))

\* reset_keywords: what the stream's list becomes
ResetKeywordsResult(kws, kw_dict) == FreshKeywords(kw_dict)

\* reset_keywords: builds the dictionary, then self.IMAGE.set_kws(kws)
ResetKeywords(h, kw_dict) ==
    /\ pc[h] = "idle"
    /\ hd[h].IMAGE # 0
    /\ res' = [res EXCEPT ![hd[h].IMAGE].kws = ResetKeywordsResult(@, kw_dict)]
    /\ Finish(h, [op |-> "reset_keywords", exc |-> "none", kw_dict |-> kw_dict,
                  ino |-> hd[h].IMAGE, held |-> Len(res[hd[h].IMAGE].kws)])
    /\ UNCHANGED <<xf, fps, file, hd>>

\* update_keyword: kws = self.IMAGE.get_kws_list()
UpdateKeywordRead(h, name, value, comment) ==
    /\ pc[h] = "idle"
    /\ hd[h].IMAGE # 0
    /\ pc' = [pc EXCEPT ![h] = "update_keyword"]
    /\ call' = [call EXCEPT ![h] = [op |-> "update_keyword", name |-> name,
                                    value |-> value, comment |-> comment,
                                    kws |-> res[hd[h].IMAGE].kws]]
    /\ ret' = NoRet
    /\ UNCHANGED <<xf, fps, file, res, hd>>

UpdateKeywordResult_newComment(kws, name, value, comment) ==
    [kws EXCEPT ![IndexOf(KwNames(kws), name)] =
        Image_kw(name, value, IF comment = NoComment THEN "" ELSE comment)]

\* update_keyword: the list with the entry of name replaced (name is in it)
UpdateKeywordResult(kws, name, value, comment) ==
    LET idx == IndexOf(KwNames(kws), name)
    IN  IF comment = NoComment
        THEN [kws EXCEPT ![idx] = Image_kw(name, value, kws[idx].comment)]
        ELSE [kws EXCEPT ![idx] = Image_kw(name, value, comment)]

\* update_keyword: the membership test, then the replacement and
\* self.IMAGE.set_kws_list(kws)
UpdateKeywordWrite(h) ==
    /\ pc[h] = "update_keyword"
    /\ LET c == call[h]
           known == c.name \in NamesOf(c.kws)
       IN  /\ res' = IF known
                     THEN [res EXCEPT ![hd[h].IMAGE].kws =
                               UpdateKeywordResult(c.kws, c.name, c.value, c.comment)]
                     ELSE res
           /\ Finish(h, [op |-> "update_keyword",
                         exc |-> IF known THEN "none" ELSE "AssertionError",
                         name |-> c.name, comment |-> c.comment])
    /\ UNCHANGED <<xf, fps, file, hd>>

\* get_keywords: the call begins, no attempt made yet
GetKeywordsStart(h, comments, n_tries) ==
    /\ pc[h] = "idle"
    /\ hd[h].IMAGE # 0
    /\ pc' = [pc EXCEPT ![h] = "get_keywords"]
    /\ call' = [call EXCEPT ![h] = [op |-> "get_keywords", comments |-> comments,
                                    n_tries |-> n_tries, failed |-> 0,
                                    faults |-> <<>>]]
    /\ ret' = NoRet
    /\ UNCHANGED <<xf, fps, file, res, hd>>

\* get_keywords: an attempt (_get_keywords_nofail) that succeeds
GetKeywordsAttempt(h) ==
    /\ pc[h] = "get_keywords"
    /\ Finish(h, [op |-> "get_keywords", exc |-> "none",
                  comments |-> call[h].comments,
                  attempts |-> call[h].failed + 1, ino |-> hd[h].IMAGE,
                  val |-> get_keywords_nofail(h, call[h].comments)])
    /\ UNCHANGED <<xf, fps, file, res, hd>>

\* the faults an attempt may raise
KwFaults == {"RuntimeError", "UnicodeDecodeError"}

\* get_keywords without the attempt after the loop
GetKeywordsAttemptFails_noLastChance(h, exc) ==
    /\ pc[h] = "get_keywords"
    /\ IF call[h].failed + 1 < call[h].n_tries
       THEN /\ call' = [call EXCEPT ![h].failed = @ + 1,
                                    ![h].faults = Append(@, exc)]
            /\ UNCHANGED <<pc, ret>>
       ELSE Finish(h, [op |-> "get_keywords", exc |-> exc,
                       comments |-> call[h].comments,
                       attempts |-> call[h].failed + 1, ino |-> hd[h].IMAGE,
                       faults |-> Append(call[h].faults, exc),
                       val |-> <<>>])
    /\ UNCHANGED <<xf, fps, file, res, hd>>

\* get_keywords: an attempt in which the native read raises exc (the list is
\* being rewritten by another process): caught and retried after the sleep in
\* the loop, propagated after it
GetKeywordsAttemptFails(h, exc) ==
    /\ pc[h] = "get_keywords"
    /\ IF call[h].failed < call[h].n_tries
       THEN /\ call' = [call EXCEPT ![h].failed = @ + 1,
                                    ![h].faults = Append(@, exc)]
            /\ UNCHANGED <<pc, ret>>
       ELSE Finish(h, [op |-> "get_keywords", exc |-> exc,
                       comments |-> call[h].comments,
                       attempts |-> call[h].failed + 1, ino |-> hd[h].IMAGE,
                       faults |-> Append(call[h].faults, exc),
                       val |-> <<>>])
    /\ UNCHANGED <<xf, fps, file, res, hd>>

(***************************************************************************)
(* States in which a part of the program is not in use.                    *)
(***************************************************************************)
\* the parameter trees: no file, no resource, no handle
FpsHandles == {"f", "g"}

FpsNoHandle == [built |-> FALSE, name |-> "", fps |-> 0, key_types |-> <<>>, cls |-> ""]

FpsNoRet == [op |-> "none", exc |-> "none"]

FpsOff ==
    [file |-> 0, res |-> <<>>, classes |-> {},
     hd |-> [h \in FpsHandles |-> FpsNoHandle],
     pc |-> [h \in FpsHandles |-> "idle"],
     call |-> [h \in FpsHandles |-> [op |-> "none"]],
     ret |-> FpsNoRet]

XfOff == [x |-> Ramp(<<1>>, "f8", 0), s |-> 0, t |-> 0, hist |-> <<"off">>,
          y |-> Ramp(<<1>>, "f8", 0)]

ShmOff ==
    /\ file = 0
    /\ res = <<>>
    /\ hd = [h \in Handles |-> NoHandle]
    /\ pc = [h \in Handles |-> "idle"]
    /\ call = [h \in Handles |-> NoCall]
    /\ ret = NoRet

\* the state after  w = SHM(name, data, symcode=.., triDim=..)  on a fresh name
\* and  r = SHM(name, symcode=.., triDim=..)
OpenedPair(data, symcode, triDim, semID) ==
    LET data_c == CreationData(data, symcode, triDim)
    IN  /\ file = 1
        /\ res = <<NewResource(data_c, data, "w")>>
        /\ hd = [h \in Handles |->
                    IF h = "w"
                    THEN [init_internals_creation(data, -1, symcode, triDim)
                              EXCEPT !.IMAGE = 1]
                    ELSE init_internals_read(1, semID, data_c, -1, TRUE,
                                             symcode, triDim)]
        /\ pc = [h \in Handles |-> "idle"]
        /\ call = [h \in Handles |-> NoCall]
        /\ ret = NoRet

(***************************************************************************)
(* The transform engine on its own: an input array is drawn, then encode   *)
(* and decode operations are applied to it one after the other.            *)
(***************************************************************************)
Symcodes == 0..7
TriDims == {LAST2LAST, LAST2FRONT, FRONT2FRONT, FRONT2LAST}

ShapesOfRank(n) == [1..n -> 1..MaxAxis]

XfInit ==
    \E n \in {1, 2, 3} : \E sh \in ShapesOfRank(n) : \E s \in Symcodes : \E t \in TriDims :
        /\ xf = [x |-> Ramp(sh, "f8", 0), s |-> s, t |-> t, hist |-> <<>>,
                 y |-> Ramp(sh, "f8", 0)]
        /\ ShmOff
        /\ fps = FpsOff

XfApply(name, value) ==
    /\ Len(xf.hist) < 2
    /\ ~IsErr(xf.y)
    /\ xf' = [xf EXCEPT !.hist = Append(@, name), !.y = value]
    /\ UNCHANGED <<shmVars, fps>>

XfImageEncode ==
    /\ ~IsErr(xf.y)
    /\ Len(xf.y.shape) = 2
    /\ XfApply("image_encode", image_encode(xf.y, xf.s))

XfImageDecode ==
    /\ ~IsErr(xf.y)
    /\ Len(xf.y.shape) = 2
    /\ XfApply("image_decode", image_decode(xf.y, xf.s))

XfFullCubeEncode ==
    /\ ~IsErr(xf.y)
    /\ Len(xf.y.shape) = 3
    /\ XfApply("full_cube_encode", full_cube_encode(xf.y, xf.s, xf.t))

XfFullCubeDecode ==
    /\ ~IsErr(xf.y)
    /\ Len(xf.y.shape) = 3
    /\ XfApply("full_cube_decode", full_cube_decode(xf.y, xf.s, xf.t))

\* x[read_slice] with the slices of the shape of x
XfReadSlice(autoSqueeze) ==
    /\ xf.hist = <<>>
    /\ XfApply(IF autoSqueeze THEN "read_slice:squeeze" ELSE "read_slice:full",
               np_getitem(xf.y, gen_squeeze_unsqueeze_slices(xf.x.shape, autoSqueeze)[1]))

\* the autoSqueeze of the read that came first
XfAutoSqueeze == xf.hist[1] = "read_slice:squeeze"

\* y[write_slice], as set_data applies the write slice
XfWriteIndex ==
    /\ Len(xf.hist) = 1
    /\ xf.hist[1] \in {"read_slice:squeeze", "read_slice:full"}
    /\ XfApply("write_index",
               np_getitem(xf.y, gen_squeeze_unsqueeze_slices(xf.x.shape, XfAutoSqueeze)[2]))

\* reconstructed = np.zeros_like(x); reconstructed[write_slice] = y, as the test
\* applies the write slice
XfWriteAssign ==
    /\ Len(xf.hist) = 1
    /\ xf.hist[1] \in {"read_slice:squeeze", "read_slice:full"}
    /\ XfApply("write_assign",
               np_setitem(np_zeros_like(xf.x),
                          gen_squeeze_unsqueeze_slices(xf.x.shape, XfAutoSqueeze)[2],
                          xf.y))

\* symcodes outside 0..7 that callers may pass, down to -MaxBadSymcode and up to
\* MaxBadSymcode
MaxBadSymcode == 9

BadSymcodes == ((0 - MaxBadSymcode)..(0 - 1)) \cup (8..MaxBadSymcode)

TransformNames ==
    {"image_encode", "image_decode", "cube_front_image_encode",
     "cube_front_image_decode", "cube_back_image_encode", "cube_back_image_decode",
     "full_cube_encode", "full_cube_decode"}

\* the named operation of the transform engine on x with code s
Transform(name, x, s, t) ==
    CASE name = "image_encode" -> image_encode(x, s)
      [] name = "image_decode" -> image_decode(x, s)
      [] name = "cube_front_image_encode" -> cube_front_image_encode(x, s)
      [] name = "cube_front_image_decode" -> cube_front_image_decode(x, s)
      [] name = "cube_back_image_encode" -> cube_back_image_encode(x, s)
      [] name = "cube_back_image_decode" -> cube_back_image_decode(x, s)
      [] name = "full_cube_encode" -> full_cube_encode(x, s, t)
      [] name = "full_cube_decode" -> full_cube_decode(x, s, t)

\* one operation called on x with a symcode outside 0..7
XfInvalidSymcode(name, s) ==
    /\ xf.hist = <<>>
    /\ Len(xf.x.shape) = IF name \in {"image_encode", "image_decode"} THEN 2 ELSE 3
    /\ xf' = [xf EXCEPT !.s = s, !.hist = <<"invalid_symcode", name>>,
                        !.y = Transform(name, xf.x, s, xf.t)]
    /\ UNCHANGED <<shmVars, fps>>

XfNext ==
    \/ \E name \in TransformNames : \E s \in BadSymcodes : XfInvalidSymcode(name, s)
    \/ XfImageEncode
    \/ XfImageDecode
    \/ XfFullCubeEncode
    \/ XfFullCubeDecode
    \/ \E a \in BOOLEAN : XfReadSlice(a)
    \/ XfWriteIndex
    \/ XfWriteAssign

SpecXf == XfInit /\ [][XfNext]_vars

(***************************************************************************)
(* C9: for every 2D array x (size-1 axes included) and every symcode s in  *)
(* 0..7, image_decode(image_encode(x, s), s) = x and                       *)
(* image_encode(image_decode(x, s), s) = x element for element, and        *)
(* image_decode(x, s) is image_encode(x, inv[s]) with                      *)
(* inv = [0,1,2,3,4,6,5,7].                                                *)
(***************************************************************************)
C9_ImageRoundTrip ==
    /\ xf.hist = <<"image_encode", "image_decode">> => xf.y = xf.x
    /\ xf.hist = <<"image_decode", "image_encode">> => xf.y = xf.x
    /\ xf.hist = <<"image_decode">> =>
          xf.y = image_encode(xf.x, <<0, 1, 2, 3, 4, 6, 5, 7>>[xf.s + 1])

\* a 3 x 1 image went through encode then decode under code 5
C9_Witness ==
    /\ xf.hist = <<"image_encode", "image_decode">>
    /\ xf.s = 5
    /\ xf.x.shape = <<3, 1>>
    /\ xf.y.at[<<2, 0>>] = 2

(***************************************************************************)
(* C10: for every 3D array x (size-1 axes included), every symcode s and   *)
(* every triDim state t, full_cube_decode(full_cube_encode(x, s, t), s, t) *)
(* = x element for element; encode is the axis symmetry followed by the    *)
(* roll of t.                                                              *)
(***************************************************************************)
C10_CubeRoundTrip ==
    /\ xf.hist = <<"full_cube_encode", "full_cube_decode">> => xf.y = xf.x
    /\ xf.hist = <<"full_cube_encode">> =>
          xf.y = CASE xf.t = LAST2LAST -> cube_back_image_encode(xf.x, xf.s)
                   [] xf.t = LAST2FRONT ->
                        cube_roll_forw(cube_back_image_encode(xf.x, xf.s))
                   [] xf.t = FRONT2FRONT -> cube_front_image_encode(xf.x, xf.s)
                   [] xf.t = FRONT2LAST ->
                        cube_roll_back(cube_front_image_encode(xf.x, xf.s))

\* a 1 x 2 x 3 cube went through encode then decode under code 6, FRONT2LAST
C10_Witness ==
    /\ xf.hist = <<"full_cube_encode", "full_cube_decode">>
    /\ xf.s = 6
    /\ xf.t = FRONT2LAST
    /\ xf.x.shape = <<1, 2, 3>>
    /\ xf.y.at[<<0, 1, 2>>] = 5

(***************************************************************************)
(* Keywords: one program holding two handles of one stream, as in          *)
(* test_keyword; a call starts when no other call is in progress.          *)
(***************************************************************************)
KwInit ==
    /\ xf = XfOff
    /\ fps = FpsOff
    /\ OpenedPair(Ramp(<<2, 2>>, "f8", 0), 4, LAST2LAST, 0)

KwNext ==
    \E h \in Handles :
        \/ AllIdle /\ \E d \in KwDicts : SetKeywordsRead(h, d)
        \/ SetKeywordsWrite(h)
        \/ AllIdle /\ \E d \in KwDicts : ResetKeywords(h, d)
        \/ AllIdle /\ \E n \in KwNameSet : \E v \in KwValueSet : \E c \in KwCommentSet :
                UpdateKeywordRead(h, n, v, c)
        \/ UpdateKeywordWrite(h)
        \/ AllIdle /\ \E c \in BOOLEAN : GetKeywordsStart(h, c, NTries)
        \/ GetKeywordsAttempt(h)

SpecKw == KwInit /\ [][KwNext]_vars

\* the value and the comment a dictionary argument gives for an entry
GivenValue(e) == e.value
GivenComment(e) == IF e.comment = NoComment THEN "" ELSE e.comment

DictNames(d) == {d[j].name : j \in DOMAIN d}

\* what get_keywords() answers on handle h in the current state
KeywordsSeenBy(h) == get_keywords_nofail(h, FALSE)

(***************************************************************************)
(* A reader whose native keyword read may raise at any attempt, while a    *)
(* writer updates a keyword.                                               *)
(***************************************************************************)
KwTryInit ==
    /\ xf = XfOff
    /\ fps = FpsOff
    /\ OpenedPair(Ramp(<<2>>, "f8", 0), 0, LAST2LAST, 0)

KwTryNext ==
    \/ \E v \in KwValueSet : \E c \in KwCommentSet : UpdateKeywordRead("w", "yo", v, c)
    \/ UpdateKeywordWrite("w")
    \/ \E c \in BOOLEAN : \E n \in 0..NTries : GetKeywordsStart("r", c, n)
    \/ GetKeywordsAttempt("r")
    \/ \E exc \in KwFaults : GetKeywordsAttemptFails("r", exc)

SpecKwTry == KwTryInit /\ [][KwTryNext]_vars

(***************************************************************************)
(* C19: get_keywords(n_tries=k) ends after at most k + 1 attempts.  It     *)
(* returns at its first attempt that succeeds, with the keywords that      *)
(* attempt read; it raises only when all k + 1 attempts have raised, and   *)
(* then the fault is the one of the last attempt.                          *)
(***************************************************************************)
C19_GetKeywordsRetries ==
    [][\A h \in Handles :
         /\ (pc[h] = "get_keywords" /\ pc'[h] = "idle") =>
               /\ ret'.op = "get_keywords"
               /\ ret'.attempts = call[h].failed + 1
               /\ ret'.attempts <= call[h].n_tries + 1
               /\ ret'.exc = "none" =>
                     ret'.val = get_keywords_nofail(h, call[h].comments)
               /\ ret'.exc # "none" =>
                     /\ ret'.attempts = call[h].n_tries + 1
                     /\ Len(ret'.faults) = ret'.attempts
                     /\ SubSeq(ret'.faults, 1, call[h].failed) = call[h].faults
                     /\ ret'.exc = ret'.faults[ret'.attempts]
         /\ (pc[h] = "get_keywords" /\ pc'[h] = "get_keywords" /\ call'[h] # call[h]) =>
               /\ call'[h].failed = call[h].failed + 1
               /\ Len(call'[h].faults) = call'[h].failed
               /\ call'[h].failed <= call[h].n_tries
               /\ ret' = ret
      ]_vars

\* the call has raised after n_tries + 1 attempts
C19_Witness ==
    /\ ret.op = "get_keywords"
    /\ ret.exc = "UnicodeDecodeError"
    /\ ret.attempts = NTries + 1
    /\ ret.faults[1] = "RuntimeError"

C6_ResetKeywordsReplaces ==
    ret.op = "reset_keywords" =>
        \A h \in Handles : hd[h].IMAGE = ret.ino =>
            /\ DOMAIN get_keywords_nofail(h, FALSE) = DictNames(ret.kw_dict)
            /\ \A j \in DOMAIN ret.kw_dict :
                  /\ get_keywords_nofail(h, FALSE)[ret.kw_dict[j].name]
                        = GivenValue(ret.kw_dict[j])
                  /\ get_keywords_nofail(h, TRUE)[ret.kw_dict[j].name]
                        = <<GivenValue(ret.kw_dict[j]), GivenComment(ret.kw_dict[j])>>

\* three keywords were held, then reset_keywords with one name left only that one
C6_Witness ==
    /\ ret.op = "reset_keywords"
    /\ Len(ret.kw_dict) = 1
    /\ ret.held = 3
    /\ DOMAIN KeywordsSeenBy("r") = {"roger"}
    /\ DOMAIN KeywordsSeenBy("w") = {"roger"}

C8_UpdateKeyword ==
    [][\A h \in Handles :
         (pc[h] = "update_keyword" /\ pc'[h] = "idle") =>
            LET c == call[h]
                before == res[hd[h].IMAGE].kws
                after == res'[hd[h].IMAGE].kws
            IN  IF c.name \notin NamesOf(before)
                THEN ret'.exc = "AssertionError" /\ after = before
                ELSE /\ ret'.exc = "none"
                     /\ Len(after) = Len(before)
                     /\ \A i \in DOMAIN before :
                           IF before[i].name = c.name
                           THEN /\ after[i].name = c.name
                                /\ after[i].value = c.value
                                /\ after[i].comment = IF c.comment = NoComment
                                                      THEN before[i].comment
                                                      ELSE c.comment
                           ELSE after[i] = before[i]
      ]_vars

\* an update without comment left the comment of the entry in place, among others
C8_Witness ==
    /\ ret.op = "update_keyword"
    /\ ret.exc = "none"
    /\ ret.comment = NoComment
    /\ Len(res[1].kws) = 3
    /\ \E i \in 1..3 : /\ res[1].kws[i].name = ret.name
                       /\ res[1].kws[i].value = 17
                       /\ res[1].kws[i].comment = "un commentaire"

(***************************************************************************)
(* isio_shmlib.py: construction, get_data, set_data and auto-relink.  Each *)
(* native call that reads or changes what other processes see (the named   *)
(* file, the resource it names, a semaphore, the data) is one step.  The   *)
(* native write is one step: it stores the data, increments cnt0 and posts *)
(* every semaphore of the resource.  Calls are issued on attached handles. *)
(***************************************************************************)
\* resources ever created under the name (inode numbers 1..MaxInode)
MaxInode == 3

\* writes to one resource
MaxCnt == 2

Attached(h) == hd[h].built /\ hd[h].IMAGE # 0

\* md.cnt0 of the resource handle h is attached to
CounterOf(h) == res[hd[h].IMAGE].cnt0

\* a call of handle h ends with exception exc
Fault(h, exc) == Finish(h, [op |-> call[h].op, exc |-> exc, h |-> h])

\* _checkGrabSemaphore asking the resource for an index at every call
SemChoices_again(hr) == 0..(NSem - 1)

\* _checkGrabSemaphore: the indices the handle may hold after it
SemChoices(hr) == IF hr.semID = -1 THEN 0..(NSem - 1) ELSE {hr.semID}

\* SHM(fname, data, symcode=.., triDim=..): the fields and _init_internals_creation
CreateStart(h, data, symcode, triDim) ==
    /\ pc[h] = "idle"
    /\ Len(res) < MaxInode
    /\ IF IsErr(CreationData(data, symcode, triDim))
       THEN /\ hd' = [hd EXCEPT ![h] = NoHandle]
            /\ Finish(h, [op |-> "create", exc |-> "NotImplementedError", h |-> h])
       ELSE /\ hd' = [hd EXCEPT ![h] = init_internals_creation(data, -1, symcode, triDim)]
            /\ pc' = [pc EXCEPT ![h] = "create_exists"]
            /\ ret' = NoRet
            /\ call' = [call EXCEPT ![h] =
                           [op |-> "create", data |-> data,
                            data_c |-> CreationData(data, symcode, triDim),
                            destroyed |-> FALSE]]
    /\ UNCHANGED <<xf, fps, file, res>>

\* the create branch going to IMAGE.create whether or not the open succeeded
CreateCheckExists_noDestroy(h) ==
    /\ pc[h] = "create_exists"
    /\ hd' = [hd EXCEPT ![h].IMAGE = file]
    /\ pc' = [pc EXCEPT ![h] = "create_create"]
    /\ UNCHANGED <<xf, fps, file, res, call, ret>>

\* _checkExists in the create branch: IMAGE.open(FNAME)
CreateCheckExists(h) ==
    /\ pc[h] = "create_exists"
    /\ hd' = [hd EXCEPT ![h].IMAGE = file]
    /\ pc' = [pc EXCEPT ![h] = IF file # 0 THEN "create_destroy" ELSE "create_create"]
    /\ UNCHANGED <<xf, fps, file, res, call, ret>>

\* IMAGE.destroy(): the name has no resource any more; processes that hold the
\* old resource keep it
CreateDestroy(h) ==
    /\ pc[h] = "create_destroy"
    /\ file' = IF file = hd[h].IMAGE THEN 0 ELSE file
    /\ hd' = [hd EXCEPT ![h].IMAGE = 0]
    /\ pc' = [pc EXCEPT ![h] = "create_create"]
    /\ call' = [call EXCEPT ![h].destroyed = TRUE]
    /\ UNCHANGED <<xf, fps, res, ret>>

\* IMAGE.create(FNAME, data_c, ...): a resource with a new inode under the name
CreateCreate(h) ==
    /\ pc[h] = "create_create"
    /\ res' = Append(res, NewResource(call[h].data_c, call[h].data, h))
    /\ file' = Len(res) + 1
    /\ hd' = [hd EXCEPT ![h].IMAGE = Len(res) + 1]
    /\ Finish(h, [op |-> "create", exc |-> "none", h |-> h,
                  destroyed |-> call[h].destroyed])
    /\ UNCHANGED <<xf, fps>>

\* SHM(fname, autoSqueeze=.., symcode=.., triDim=..) begins: the fields set
\* before the read branch
OpenStart(h, autoSqueeze, symcode, triDim, semID) ==
    /\ pc[h] = "idle"
    /\ pc' = [pc EXCEPT ![h] = "open_exists"]
    /\ call' = [call EXCEPT ![h] =
                   [op |-> "open", autoSqueeze |-> autoSqueeze, symcode |-> symcode,
                    triDim |-> triDim, semID |-> semID, attempts |-> 0]]
    /\ ret' = NoRet
    /\ UNCHANGED <<xf, fps, file, res, hd>>

\* the read branch trying the attach a second time when the name has no file
OpenCheckExists_retry(h) ==
    /\ pc[h] = "open_exists"
    /\ IF file = 0 /\ call[h].attempts = 0
       THEN /\ call' = [call EXCEPT ![h].attempts = 1]
            /\ UNCHANGED <<hd, pc, ret>>
       ELSE IF file = 0
       THEN /\ hd' = hd
            /\ Finish(h, [op |-> "open", exc |-> "FileNotFoundError", h |-> h,
                          attempts |-> call[h].attempts + 1])
       ELSE /\ hd' = [hd EXCEPT ![h] =
                         init_internals_read(file, call[h].semID, res[file].data, -1,
                                             call[h].autoSqueeze, call[h].symcode,
                                             call[h].triDim)]
            /\ Finish(h, [op |-> "open", exc |-> "none", h |-> h,
                          attempts |-> call[h].attempts + 1])
    /\ UNCHANGED <<xf, fps, file, res>>

\* the read branch: _checkExists() (IMAGE.open), _checkGrabSemaphore(),
\* IMAGE.copy() and _init_internals_read
OpenCheckExists(h) ==
    /\ pc[h] = "open_exists"
    /\ IF file = 0
       THEN /\ hd' = hd
            /\ Finish(h, [op |-> "open", exc |-> "FileNotFoundError", h |-> h,
                          attempts |-> call[h].attempts + 1])
       ELSE /\ hd' = [hd EXCEPT ![h] =
                         init_internals_read(file, call[h].semID, res[file].data, -1,
                                             call[h].autoSqueeze, call[h].symcode,
                                             call[h].triDim)]
            /\ Finish(h, [op |-> "open", exc |-> "none", h |-> h,
                          attempts |-> call[h].attempts + 1])
    /\ UNCHANGED <<xf, fps, file, res>>

\* the step that follows _attempt_autorelink_if_needed, or its omission
AfterRelink(c) ==
    IF c.op = "set_data" THEN "sd_write"
    ELSE IF c.op = "multi_recv_data" THEN "mr_wait"
    ELSE IF c.check /\ c.flush THEN "gd_flush"
    ELSE IF c.check THEN "gd_wait"
    ELSE "gd_read"

\* the two checks of _attempt_autorelink_if_needed after a reopen, type first
RelinkCheck_typeFirst(shape_c, nptype, size, dtype) ==
    IF dtype # nptype THEN "AutoRelinkTypeError"
    ELSE IF shape_c # size THEN "AutoRelinkSizeError"
    ELSE "none"

\* the two checks of _attempt_autorelink_if_needed after a reopen
RelinkCheck(shape_c, nptype, size, dtype) ==
    IF shape_c # size THEN "AutoRelinkSizeError"
    ELSE IF dtype # nptype THEN "AutoRelinkTypeError"
    ELSE "none"

\* get_data(check, timeout, checkSemAndFlush, autorelink_if_need) begins; timeout
\* 0 stands for None and for every value <= 0
GetDataStartTimeout(h, check, flush, relink, timeout) ==
    /\ pc[h] = "idle"
    /\ Attached(h)
    /\ LET c == [op |-> "get_data", check |-> check, flush |-> flush,
                 relink |-> relink, cnt0 |-> CounterOf(h), waited |-> FALSE,
                 reopened |-> FALSE, timeout |-> timeout, warned |-> FALSE,
                 cntT |-> CounterOf(h)]
       IN  /\ call' = [call EXCEPT ![h] = c]
           /\ pc' = [pc EXCEPT ![h] = IF relink THEN "relink_stat" ELSE AfterRelink(c)]
    /\ ret' = NoRet
    /\ UNCHANGED <<xf, fps, file, res, hd>>

\* get_data(check, checkSemAndFlush, autorelink_if_need) with the default
\* timeout = 5.0
GetDataStart(h, check, flush, relink) == GetDataStartTimeout(h, check, flush, relink, 5)

\* _attempt_autorelink_if_needed: IMAGE.md.inode == os.stat(FILEPATH).st_ino
RelinkStat(h) ==
    /\ pc[h] = "relink_stat"
    /\ IF file = 0
       THEN Fault(h, "FileNotFoundError")
       ELSE /\ pc' = [pc EXCEPT ![h] = IF hd[h].IMAGE = file THEN AfterRelink(call[h])
                                       ELSE "relink_reopen"]
            /\ UNCHANGED <<call, ret>>
    /\ UNCHANGED <<xf, fps, file, res, hd>>

\* _attempt_autorelink_if_needed: IMAGE.close(), _checkExists(),
\* _checkGrabSemaphore() and the size and type checks
RelinkReopen(h) ==
    /\ pc[h] = "relink_reopen"
    /\ IF file = 0
       THEN /\ hd' = [hd EXCEPT ![h].IMAGE = 0]
            /\ Fault(h, "AutoRelinkError")
       ELSE \E s \in SemChoices(hd[h]) :
            LET verdict == RelinkCheck(hd[h].shape_c, hd[h].nptype,
                                       res[file].size, res[file].dtype)
            IN  /\ hd' = [hd EXCEPT ![h].IMAGE = file, ![h].semID = s]
                /\ IF verdict # "none"
                   THEN Fault(h, verdict)
                   ELSE /\ pc' = [pc EXCEPT ![h] = AfterRelink(call[h])]
                        /\ call' = [call EXCEPT ![h].reopened = TRUE]
                        /\ ret' = ret
    /\ UNCHANGED <<xf, fps, file, res>>

\* get_data claiming the semaphore but leaving its count as it is
GetDataFlush_noFlush(h) ==
    /\ pc[h] = "gd_flush"
    /\ \E s \in SemChoices(hd[h]) :
          hd' = [hd EXCEPT ![h].semID = s]
    /\ pc' = [pc EXCEPT ![h] = "gd_wait"]
    /\ UNCHANGED <<xf, fps, file, res, call, ret>>

\* get_data: _checkGrabSemaphore() and IMAGE.semflush(semID)
GetDataFlush(h) ==
    /\ pc[h] = "gd_flush"
    /\ \E s \in SemChoices(hd[h]) :
          /\ hd' = [hd EXCEPT ![h].semID = s]
          /\ res' = [res EXCEPT ![hd[h].IMAGE].sem[s] = 0]
    /\ pc' = [pc EXCEPT ![h] = "gd_wait"]
    /\ UNCHANGED <<xf, fps, file, call, ret>>

\* get_data: IMAGE.semwait(semID) or IMAGE.semtimedwait(semID, timeout) takes a
\* post
GetDataWait(h) ==
    /\ pc[h] = "gd_wait"
    /\ IF hd[h].semID = -1
       THEN /\ Fault(h, "TypeError")
            /\ res' = res
       ELSE /\ res[hd[h].IMAGE].sem[hd[h].semID] > 0
            /\ res' = [res EXCEPT ![hd[h].IMAGE].sem[hd[h].semID] = @ - 1]
            /\ pc' = [pc EXCEPT ![h] = "gd_read"]
            /\ call' = [call EXCEPT ![h].waited = TRUE]
            /\ ret' = ret
    /\ UNCHANGED <<xf, fps, file, hd>>

\* get_data raising on a timed-out wait
GetDataTimeout_raise(h) ==
    /\ pc[h] = "gd_wait"
    /\ call[h].timeout > 0
    /\ hd[h].semID # -1
    /\ res[hd[h].IMAGE].sem[hd[h].semID] = 0
    /\ Fault(h, "TimeoutError")
    /\ UNCHANGED <<xf, fps, file, res, hd>>

\* get_data: IMAGE.semtimedwait(semID, timeout) times out, err != 0, and the
\* warning is printed
GetDataTimeout(h) ==
    /\ pc[h] = "gd_wait"
    /\ call[h].timeout > 0
    /\ hd[h].semID # -1
    /\ res[hd[h].IMAGE].sem[hd[h].semID] = 0
    /\ pc' = [pc EXCEPT ![h] = "gd_read"]
    /\ call' = [call EXCEPT ![h].warned = TRUE, ![h].cntT = CounterOf(h)]
    /\ UNCHANGED <<xf, fps, file, res, hd, ret>>

\* get_data: the copy of the data, sliced and decoded
GetDataRead(h) ==
    /\ pc[h] = "gd_read"
    /\ LET val == DecodeForUser(h, res[hd[h].IMAGE].data)
       IN  IF IsErr(val) THEN Fault(h, val.err)
           ELSE Finish(h, [op |-> "get_data", exc |-> "none", h |-> h, val |-> val,
                           src |-> hd[h].IMAGE, cnt0 |-> call[h].cnt0,
                           cnt |-> CounterOf(h), check |-> call[h].check,
                           flush |-> call[h].flush, waited |-> call[h].waited,
                           timeout |-> call[h].timeout, warned |-> call[h].warned,
                           relink |-> call[h].relink, reopened |-> call[h].reopened])
    /\ UNCHANGED <<xf, fps, file, res, hd>>

\* set_data(data, autorelink_if_need) begins
SetDataStart(h, data, relink) ==
    /\ pc[h] = "idle"
    /\ Attached(h)
    /\ CounterOf(h) < MaxCnt
    /\ call' = [call EXCEPT ![h] = [op |-> "set_data", data |-> data,
                                    relink |-> relink, reopened |-> FALSE]]
    /\ pc' = [pc EXCEPT ![h] = IF relink THEN "relink_stat" ELSE "sd_write"]
    /\ ret' = NoRet
    /\ UNCHANGED <<xf, fps, file, res, hd>>

\* set_data: encode, slice and IMAGE.write(data_towrite)
SetDataWrite(h) ==
    /\ pc[h] = "sd_write"
    /\ LET towrite == EncodeForWire(h, call[h].data)
       IN  IF IsErr(towrite)
           THEN /\ Fault(h, towrite.err)
                /\ res' = res
           ELSE /\ res' = [res EXCEPT ![hd[h].IMAGE] =
                              [@ EXCEPT !.data = towrite,
                                        !.cnt0 = @ + 1,
                                        !.sem = [i \in DOMAIN @ |-> @[i] + 1],
                                        !.user = call[h].data,
                                        !.by = h]]
                /\ Finish(h, [op |-> "set_data", exc |-> "none", h |-> h])
    /\ UNCHANGED <<xf, fps, file, hd>>

\* frames asked of one multi_recv_data
MaxRecv == 2

\* multi_recv_data(n, timeout=..) begins: the output is prepared
MultiRecvStart(h, n, timeout) ==
    /\ pc[h] = "idle"
    /\ Attached(h)
    /\ call' = [call EXCEPT ![h] =
                   [op |-> "multi_recv_data", n |-> n, timeout |-> timeout,
                    reopened |-> FALSE, output |-> <<>>, log |-> <<>>,
                    cntF |-> CounterOf(h)]]
    /\ pc' = [pc EXCEPT ![h] = "mr_flush"]
    /\ ret' = NoRet
    /\ UNCHANGED <<xf, fps, file, res, hd>>

\* multi_recv_data: _checkGrabSemaphore() and IMAGE.semflush(semID); then the
\* first get_data begins with _attempt_autorelink_if_needed
MultiRecvFlush(h) ==
    /\ pc[h] = "mr_flush"
    /\ \E s \in SemChoices(hd[h]) :
          /\ hd' = [hd EXCEPT ![h].semID = s]
          /\ res' = [res EXCEPT ![hd[h].IMAGE].sem[s] = 0]
    /\ call' = [call EXCEPT ![h].log = Append(@, "flush"),
                            ![h].cntF = CounterOf(h)]
    /\ pc' = [pc EXCEPT ![h] = "relink_stat"]
    /\ UNCHANGED <<xf, fps, file, ret>>

\* get_data(check=True, checkSemAndFlush=False) in the loop: the wait takes a post
MultiRecvWait(h) ==
    /\ pc[h] = "mr_wait"
    /\ res[hd[h].IMAGE].sem[hd[h].semID] > 0
    /\ res' = [res EXCEPT ![hd[h].IMAGE].sem[hd[h].semID] = @ - 1]
    /\ call' = [call EXCEPT ![h].log = Append(@, "wait")]
    /\ pc' = [pc EXCEPT ![h] = "mr_read"]
    /\ UNCHANGED <<xf, fps, file, hd, ret>>

\* get_data in the loop: semtimedwait times out and the warning is printed
MultiRecvTimeout(h) ==
    /\ pc[h] = "mr_wait"
    /\ call[h].timeout > 0
    /\ res[hd[h].IMAGE].sem[hd[h].semID] = 0
    /\ call' = [call EXCEPT ![h].log = Append(@, "timeout")]
    /\ pc' = [pc EXCEPT ![h] = "mr_read"]
    /\ UNCHANGED <<xf, fps, file, res, hd, ret>>

\* the loop flushing the semaphore again after each frame
MultiRecvRead_flush(h) ==
    /\ pc[h] = "mr_read"
    /\ LET val == DecodeForUser(h, res[hd[h].IMAGE].data)
           output == Append(call[h].output, val)
       IN  IF IsErr(val)
           THEN /\ Fault(h, val.err)
                /\ res' = res
           ELSE IF Len(output) = call[h].n
           THEN /\ Finish(h, [op |-> "multi_recv_data", exc |-> "none", h |-> h,
                              n |-> call[h].n, output |-> output,
                              log |-> call[h].log])
                /\ res' = res
           ELSE /\ call' = [call EXCEPT ![h].output = output,
                                        ![h].log = Append(@, "flush")]
                /\ res' = [res EXCEPT ![hd[h].IMAGE].sem[hd[h].semID] = 0]
                /\ pc' = [pc EXCEPT ![h] = "relink_stat"]
                /\ ret' = ret
    /\ UNCHANGED <<xf, fps, file, hd>>

\* get_data in the loop: the copy of the data, decoded, stored in output[k]; then
\* the next get_data begins, or multi_recv_data returns the output
MultiRecvRead(h) ==
    /\ pc[h] = "mr_read"
    /\ LET val == DecodeForUser(h, res[hd[h].IMAGE].data)
           output == Append(call[h].output, val)
       IN  IF IsErr(val)
           THEN /\ Fault(h, val.err)
                /\ res' = res
           ELSE IF Len(output) = call[h].n
           THEN /\ Finish(h, [op |-> "multi_recv_data", exc |-> "none", h |-> h,
                              n |-> call[h].n, output |-> output,
                              log |-> call[h].log])
                /\ res' = res
           ELSE /\ call' = [call EXCEPT ![h].output = output]
                /\ res' = res
                /\ pc' = [pc EXCEPT ![h] = "relink_stat"]
                /\ ret' = ret
    /\ UNCHANGED <<xf, fps, file, hd>>

(***************************************************************************)
(* One process at a time: w creates the stream from data, r opens the same *)
(* name with the symcode and triDim of w, then both read and write.        *)
(***************************************************************************)
RTBases == {10}

UserShapes == UNION {ShapesOfRank(n) : n \in 1..3}

RTInit == xf = XfOff /\ fps = FpsOff /\ ShmOff

RTNext ==
    \E h \in Handles :
        \/ /\ AllIdle /\ h = "w" /\ ~hd["w"].built
           /\ \E sh \in UserShapes : \E s \in Symcodes : \E t \in TriDims :
                 CreateStart(h, Ramp(sh, "f8", 0), s, t)
        \/ CreateCheckExists(h)
        \/ CreateCreate(h)
        \/ /\ AllIdle /\ h = "r" /\ Attached("w") /\ ~hd["r"].built
           /\ \E a \in BOOLEAN :
                 OpenStart(h, a, hd["w"].symcode, hd["w"].triDimState, 0)
        \/ OpenCheckExists(h)
        \/ /\ AllIdle
           /\ \E relink \in BOOLEAN : GetDataStart(h, FALSE, TRUE, relink)
        \/ RelinkStat(h)
        \/ GetDataRead(h)
        \/ /\ AllIdle /\ Attached(h)
           /\ \E b \in RTBases :
                 SetDataStart(h, Ramp(hd[h].shape, hd[h].nptype, b + CounterOf(h)), FALSE)
        \/ SetDataWrite(h)

SpecRT == RTInit /\ [][RTNext]_vars

NoUnitAxis(shape) == \A i \in DOMAIN shape : shape[i] # 1

(***************************************************************************)
(* C1: for every user shape of 1 to 3 dimensions with no size-1 axis,      *)
(* every symcode and every triDim: a second handle opened on the name with *)
(* the symcode and triDim of the creating handle has the same shape and    *)
(* shape_c as the creating handle; get_data() returns the user-side array  *)
(* last handed to the stream, be it the data of the creation or the data   *)
(* of a set_data on the other handle.                                      *)
(***************************************************************************)
C1_StreamRoundTrip ==
    /\ (/\ Attached("w") /\ Attached("r")
        /\ hd["r"].IMAGE = hd["w"].IMAGE
        /\ hd["r"].symcode = hd["w"].symcode
        /\ hd["r"].triDimState = hd["w"].triDimState
        /\ NoUnitAxis(hd["w"].shape))
          => /\ hd["r"].shape = hd["w"].shape
             /\ hd["r"].shape_c = hd["w"].shape_c
    /\ (/\ ret.op = "get_data" /\ ret.exc = "none"
        /\ NoUnitAxis(hd["w"].shape))
          => ret.val = res[ret.src].user

\* the case of the test: shape of three axes, symcode 5, triDim 2; r has read the
\* data of the creation, then written, and w has read what r wrote
C1_Witness ==
    /\ ret.op = "get_data" /\ ret.exc = "none" /\ ret.h = "w"
    /\ hd["w"].shape = <<2, 3, 2>>
    /\ hd["w"].symcode = 5
    /\ hd["w"].triDimState = FRONT2FRONT
    /\ hd["r"].shape = <<2, 3, 2>>
    /\ res[ret.src].by = "r"
    /\ ret.val = Ramp(<<2, 3, 2>>, "f8", 10)

(***************************************************************************)
(* A writer and a reader running concurrently on one stream: w writes, r   *)
(* reads with and without waiting for a write.                             *)
(***************************************************************************)
SyncInit == xf = XfOff /\ fps = FpsOff /\ OpenedPair(Ramp(<<2>>, "f8", 0), 4, LAST2LAST, 0)

SyncNext ==
    \E h \in Handles :
        \/ /\ h = "w"
           /\ SetDataStart(h, Ramp(hd[h].shape, hd[h].nptype, 10 + CounterOf(h)), FALSE)
        \/ SetDataWrite(h)
        \/ /\ h = "r"
           /\ \E check \in BOOLEAN : \E flush \in BOOLEAN : \E relink \in BOOLEAN :
              \E timeout \in {0, 5} :
                 GetDataStartTimeout(h, check, flush, relink, timeout)
        \/ RelinkStat(h)
        \/ GetDataFlush(h)
        \/ GetDataWait(h)
        \/ GetDataTimeout(h)
        \/ GetDataRead(h)
        \/ /\ h = "r"
           /\ \E n \in 1..MaxRecv : \E timeout \in {0, 5} : MultiRecvStart(h, n, timeout)
        \/ MultiRecvFlush(h)
        \/ MultiRecvWait(h)
        \/ MultiRecvTimeout(h)
        \/ MultiRecvRead(h)

SpecSync == SyncInit /\ [][SyncNext]_vars

(***************************************************************************)
(* C2: with a writer running concurrently, whenever                        *)
(* get_data(check=True, checkSemAndFlush=True) returns after a wait that   *)
(* did not time out, the write counter at the return is strictly greater   *)
(* than it was when the call began; and the write counter a handle sees    *)
(* never decreases, so the values seen by successive waits never decrease. *)
(***************************************************************************)
C2_WrittenAfterCallBegan ==
    [][\A h \in Handles :
         /\ (/\ pc[h] = "gd_read" /\ pc'[h] = "idle"
             /\ call[h].check /\ call[h].flush /\ call[h].waited)
               => /\ ret'.exc = "none"
                  /\ ret'.cnt = CounterOf(h)
                  /\ ret'.cnt > call[h].cnt0
                  /\ ret'.val = res[hd[h].IMAGE].user
         /\ (Attached(h) /\ hd'[h].IMAGE = hd[h].IMAGE)
               => res'[hd[h].IMAGE].cnt0 >= res[hd[h].IMAGE].cnt0
      ]_vars

\* one write was made before the call began and the call returned the second one
C2_Witness ==
    /\ ret.op = "get_data" /\ ret.exc = "none" /\ ret.h = "r"
    /\ ret.check /\ ret.flush /\ ret.waited
    /\ ret.cnt0 = 1
    /\ ret.cnt = 2
    /\ ret.val = Ramp(<<2>>, "f8", 11)

\* get_data(check=True, timeout=t), t > 0, returns or faults
TimedGetDataEnds(h) ==
    /\ pc[h] # "idle" /\ pc'[h] = "idle"
    /\ call[h].op = "get_data"
    /\ call[h].check /\ call[h].flush /\ call[h].timeout > 0

\* the data a get_data of h returns is the data of the last write
ReturnsLastWrite(h) ==
    /\ ret'.op = "get_data"
    /\ ret'.exc = "none"
    /\ ret'.val = res[hd[h].IMAGE].user

(***************************************************************************)
(* C17 as stated: get_data(check=True, timeout=t), t > 0, whose wait timed *)
(* out with no write posted since the call began returns without fault,    *)
(* with the warning, the data of the last write and the write counter as   *)
(* it was when the call began.                                             *)
(***************************************************************************)
C17_NoWriteBeforeTimeout ==
    [][\A h \in Handles :
         (/\ TimedGetDataEnds(h)
          /\ call[h].warned
          /\ call[h].cntT = call[h].cnt0)
            => /\ ReturnsLastWrite(h)
               /\ ret'.warned
               /\ ret'.cnt = call[h].cnt0
      ]_vars

(***************************************************************************)
(* C17: get_data(check=True, timeout=t), t > 0, during which no write is   *)
(* posted, from its beginning to the copy of the data, returns without     *)
(* fault after a wait that timed out: the warning is printed, the data     *)
(* returned is the data of the last write and the write counter is as it   *)
(* was when the call began.                                                *)
(***************************************************************************)
C17_StaleRead ==
    [][\A h \in Handles :
         (/\ TimedGetDataEnds(h)
          /\ CounterOf(h) = call[h].cnt0)
            => /\ ReturnsLastWrite(h)
               /\ ret'.warned
               /\ ~ret'.waited
               /\ ret'.cnt = call[h].cnt0
      ]_vars

\* a read that timed out after one write had been made before it began
C17_Witness ==
    /\ ret.op = "get_data" /\ ret.exc = "none" /\ ret.h = "r"
    /\ ret.check /\ ret.flush /\ ret.timeout > 0
    /\ ret.warned
    /\ ret.cnt0 = 1
    /\ ret.cnt = 1
    /\ ret.val = Ramp(<<2>>, "f8", 10)

(***************************************************************************)
(* C18: multi_recv_data(n) flushes the semaphore once, before the first    *)
(* wait, then makes n waits with no flush before any of them, and returns  *)
(* n frames.  When no wait timed out, the writer has posted at least n     *)
(* writes since the flush and the posts left on the semaphore at the       *)
(* return are the posts made since the flush less n: each frame took one   *)
(* post of its own and no post was discarded.                              *)
(***************************************************************************)
C18_MultiRecv ==
    [][\A h \in Handles :
         (/\ pc[h] = "mr_read" /\ pc'[h] = "idle"
          /\ ret'.exc = "none")
            => LET log == ret'.log
                   posts == CounterOf(h) - call[h].cntF
               IN  /\ ret'.op = "multi_recv_data"
                   /\ Len(ret'.output) = ret'.n
                   /\ Len(log) = ret'.n + 1
                   /\ log[1] = "flush"
                   /\ \A k \in 2..Len(log) : log[k] \in {"wait", "timeout"}
                   /\ (\A k \in 2..Len(log) : log[k] = "wait")
                        => /\ posts >= ret'.n
                           /\ res[hd[h].IMAGE].sem[hd[h].semID] = posts - ret'.n
      ]_vars

\* two frames were received from two posts, with a post made between the two
\* waits
C18_Witness ==
    /\ ret.op = "multi_recv_data" /\ ret.exc = "none"
    /\ ret.n = 2
    /\ ret.log = <<"flush", "wait", "wait">>
    /\ ret.output = <<Ramp(<<2>>, "f8", 10), Ramp(<<2>>, "f8", 11)>>

(***************************************************************************)
(* A stream that is created again and again under one name, with varying   *)
(* shape and type, while a reader opened on the name keeps reading.        *)
(***************************************************************************)
RelinkShapes == {<<2>>, <<3>>}
RelinkDtypes == {"f8", "i4"}

RelinkInit == xf = XfOff /\ fps = FpsOff /\ ShmOff

RelinkNext ==
    \E h \in Handles :
        \/ /\ h = "w"
           /\ \E sh \in RelinkShapes : \E dt \in RelinkDtypes :
                 CreateStart(h, Ramp(sh, dt, 10 * Len(res)), 4, LAST2LAST)
        \/ CreateCheckExists(h)
        \/ CreateDestroy(h)
        \/ CreateCreate(h)
        \/ /\ h = "r"
           /\ OpenStart(h, TRUE, 4, LAST2LAST, 0)
        \/ OpenCheckExists(h)
        \/ /\ h = "r"
           /\ \E relink \in BOOLEAN : GetDataStart(h, FALSE, TRUE, relink)
        \/ RelinkStat(h)
        \/ RelinkReopen(h)
        \/ GetDataRead(h)

SpecRelink == RelinkInit /\ [][RelinkNext]_vars

(***************************************************************************)
(* C3: in get_data with auto-relink, when the inode of the named file      *)
(* differs from the inode of the attached resource the handle closes and   *)
(* reopens; then it raises AutoRelinkError if the reopen fails,            *)
(* AutoRelinkSizeError if the new wire shape differs from shape_c (also    *)
(* when the dtype differs too), AutoRelinkTypeError if the shape matches   *)
(* and the dtype differs, and goes on to read the new resource only when   *)
(* both match.  When the inode is unchanged nothing is closed or reopened. *)
(***************************************************************************)
C3_AutoRelinkOrder ==
    [][\A h \in Handles :
         /\ (pc[h] = "relink_stat" /\ pc'[h] # "relink_stat" /\ call[h].op = "get_data")
               => /\ (file # 0 /\ file # hd[h].IMAGE) => pc'[h] = "relink_reopen"
                  /\ file = hd[h].IMAGE =>
                        /\ hd'[h] = hd[h]
                        /\ pc'[h] = AfterRelink(call[h])
                        /\ ~call'[h].reopened
         /\ (pc[h] = "relink_reopen" /\ pc'[h] # "relink_reopen" /\ call[h].op = "get_data")
               => IF file = 0
                  THEN pc'[h] = "idle" /\ ret'.exc = "AutoRelinkError"
                  ELSE /\ hd'[h].IMAGE = file
                       /\ IF res[file].size # hd[h].shape_c
                          THEN pc'[h] = "idle" /\ ret'.exc = "AutoRelinkSizeError"
                          ELSE IF res[file].dtype # hd[h].nptype
                          THEN pc'[h] = "idle" /\ ret'.exc = "AutoRelinkTypeError"
                          ELSE pc'[h] = AfterRelink(call[h]) /\ call'[h].reopened
         /\ (pc[h] = "gd_read" /\ pc'[h] = "idle" /\ call[h].reopened)
               => /\ ret'.exc = "none"
                  /\ ret'.src = hd[h].IMAGE
                  /\ res[ret'.src].size = hd[h].shape_c
                  /\ res[ret'.src].dtype = hd[h].nptype
                  /\ ret'.val = res[ret'.src].user
      ]_vars

\* the stream was created again with another shape and another dtype, and the
\* relink of the reader raised the size mismatch
C3_Witness ==
    /\ ret.op = "get_data" /\ ret.h = "r"
    /\ ret.exc = "AutoRelinkSizeError"
    /\ hd["r"].IMAGE = 2
    /\ res[2].size # hd["r"].shape_c
    /\ res[2].dtype # hd["r"].nptype

(***************************************************************************)
(* C4: get_data with auto-relink never returns data read from a resource   *)
(* whose wire shape or dtype differs from the shape_c and dtype the handle *)
(* captured at open; after a relink raised a size or type mismatch, a      *)
(* later get_data on the handle faults again while the mismatched resource *)
(* stays under the name.                                                   *)
(***************************************************************************)
C4_NeverReadsMismatched ==
    (ret.op = "get_data" /\ ret.exc = "none" /\ ret.relink)
        => /\ res[ret.src].size = hd[ret.h].shape_c
           /\ res[ret.src].dtype = hd[ret.h].nptype

(***************************************************************************)
(* C11 as claimed: for every wire shape of 1 to 3 dimensions and both      *)
(* values of autoSqueeze, x[read_slice] has the wire shape without its     *)
(* size-1 axes when autoSqueeze is true and the full wire shape when it is *)
(* false, and assigning x[read_slice] into an array of the wire shape      *)
(* through write_slice reproduces x exactly.                               *)
(***************************************************************************)
C11_AssignThroughWriteSlice ==
    /\ xf.hist = <<"read_slice:squeeze">> =>
          xf.y.shape = SelectSeq(xf.x.shape, LAMBDA n : n # 1)
    /\ xf.hist = <<"read_slice:full">> => xf.y.shape = xf.x.shape
    /\ (Len(xf.hist) = 2 /\ xf.hist[2] = "write_assign") => xf.y = xf.x

\* no axis of size 1 comes after a larger axis
UnitAxesLead(shape) ==
    \A i \in DOMAIN shape : \A j \in DOMAIN shape :
        (i < j /\ shape[j] = 1) => shape[i] = 1

(***************************************************************************)
(* C11 as amended: x[read_slice] has the wire shape without its size-1     *)
(* axes when autoSqueeze is true and the full wire shape when it is false; *)
(* indexing x[read_slice] by write_slice, as set_data does, reproduces x   *)
(* exactly for every shape; assigning x[read_slice] into an array of the   *)
(* wire shape through write_slice reproduces x when autoSqueeze is false   *)
(* or no size-1 axis follows a larger axis, and raises ValueError          *)
(* otherwise.                                                              *)
(***************************************************************************)
C11_SqueezeUnsqueeze ==
    /\ xf.hist = <<"read_slice:squeeze">> =>
          xf.y.shape = SelectSeq(xf.x.shape, LAMBDA n : n # 1)
    /\ xf.hist = <<"read_slice:full">> => xf.y.shape = xf.x.shape
    /\ (Len(xf.hist) = 2 /\ xf.hist[2] = "write_index") => xf.y = xf.x
    /\ (Len(xf.hist) = 2 /\ xf.hist[2] = "write_assign") =>
          IF xf.hist[1] = "read_slice:full" \/ UnitAxesLead(xf.x.shape)
          THEN xf.y = xf.x
          ELSE xf.y = [err |-> "ValueError"]

\* a 2 x 1 x 3 array was squeezed to 2 x 3 and indexed back by the write slice
C11_Witness ==
    /\ xf.hist = <<"read_slice:squeeze", "write_index">>
    /\ xf.x.shape = <<2, 1, 3>>
    /\ xf.y.shape = <<2, 1, 3>>
    /\ xf.y.at[<<1, 0, 2>>] = 5

(***************************************************************************)
(* C12: every encode and decode operation of the transform engine raises   *)
(* ValueError for every integer symcode outside 0..7, negative or greater  *)
(* than 7, and never returns an array for such a code.                     *)
(***************************************************************************)
C12_InvalidSymcodeFaults ==
    (Len(xf.hist) = 2 /\ xf.hist[1] = "invalid_symcode")
        => xf.y = [err |-> "ValueError"]

(***************************************************************************)
(* fps.py: the parameter tree.  One name is modelled.  fps.file is the     *)
(* number of the resource the file <MILK_SHM_DIR>/<name>.fps.shm holds, 0  *)
(* when the file is absent; fps.res[i] is resource i: its entries (key to  *)
(* type and value) and its run states.  The native CPTFPS object is        *)
(* modelled from its call sites: the constructor raises RuntimeError when  *)
(* the file is absent, keys is the key to type dictionary of the resource  *)
(* when it is read, add_entry registers a key, [] reads and stores a value.*)
(***************************************************************************)
FpsName == "cam"

FpsClasses == {"FPS", "SubFPS"}

FpsKeys == {"Name", "gain"}

FpsTypeOf(key) == IF key = "Name" THEN "STRING" ELSE "FLOAT64"

FpsDefault(key) == IF key = "Name" THEN "" ELSE 0

FpsValuesOf(key) == IF key = "Name" THEN {FpsName} ELSE {1, 2}

\* resources ever allocated under the name
MaxFpsRes == 2

FpsNewResource == [entries |-> <<>>, CONFrunning |-> 0, RUNrunning |-> 0]

FpsAllIdle == \A h \in FpsHandles : fps.pc[h] = "idle"

FpsAttached(h) == fps.hd[h].built

\* a call of handle h ends: record is the last completed call
FpsFinish(f, h, record) ==
    [f EXCEPT !.pc[h] = "idle", !.call[h] = [op |-> "none"], !.ret = record]

\* the subclasses of SmartAttributesFPS of fps_test.py (A to G), and H whose
\* schema holds a tuple of two items
SmartClasses == {"A", "B", "C", "D", "E", "F", "G", "H"}

\* the attributes the class body annotates (_cls_find_annotations)
Annotations(cls) == IF cls \in {"A", "D"} THEN {} ELSE {"gain"}

\* hasattr(cls, '_DICT_METADATA')
HasDictMetadata(cls) == cls \notin {"A", "B"}

\* cls._DICT_METADATA: for each key the tuple, each item given by its type
DictMetadata(cls) ==
    CASE cls = "E" -> [k \in {"yolo"} |-> <<>>]
      [] cls = "F" -> [k \in {"gain"} |-> <<"int", "int", "int">>]
      [] cls = "G" -> [k \in {"gain"} |-> <<"str", "FPS_type", "FPS_flags">>]
      [] cls = "H" -> [k \in {"gain"} |-> <<"str", "FPS_type">>]
      [] OTHER -> [k \in {} |-> <<>>]

\* _cls_metadata_checks passing every class
cls_metadata_checks_pass(cls) == "none"

\* SmartAttributesFPS._cls_metadata_checks: the fault it raises, or "none"
cls_metadata_checks(cls) ==
    IF ~HasDictMetadata(cls) THEN "SmartFPSInitError"
    ELSE IF DOMAIN DictMetadata(cls) # Annotations(cls) THEN "SmartFPSInitError"
    ELSE IF \E k \in DOMAIN DictMetadata(cls) : Len(DictMetadata(cls)[k]) # 3
    THEN "SmartFPSInitError"
    ELSE IF \E k \in DOMAIN DictMetadata(cls) :
               DictMetadata(cls)[k] # <<"str", "FPS_type", "FPS_flags">>
    THEN "SmartFPSInitError"
    ELSE "none"

\* SmartAttributesFPS.__new__ on class cls: the fault it raises, or "none"; the
\* classes that are not subclasses of SmartAttributesFPS have object.__new__
SmartNew(cls) == IF cls \in SmartClasses THEN cls_metadata_checks(cls) ELSE "none"

\* FPS.__init__ after CPTFPS(name) succeeded
FpsOpened(f, name, cls) ==
    [built |-> TRUE, name |-> name, fps |-> f.file,
     key_types |-> [k \in DOMAIN f.res[f.file].entries |->
                       f.res[f.file].entries[k].type],
     cls |-> cls]

\* cls(name) begins
FpsOpenStart(h, cls) ==
    /\ fps.pc[h] = "idle"
    /\ fps' = [fps EXCEPT !.pc[h] = "open_attach",
                          !.call[h] = [op |-> "open", cls |-> cls, attempts |-> 0],
                          !.ret = FpsNoRet]
    /\ UNCHANGED <<xf, shmVars>>

\* cls(name) attaching before cls.__new__ has checked the schema
FpsOpenAttach_attachFirst(h) ==
    /\ fps.pc[h] = "open_attach"
    /\ fps' = IF fps.file = 0
              THEN FpsFinish(fps, h,
                             [op |-> "open", exc |-> "FPSDoesntExistError",
                              h |-> h, attempts |-> fps.call[h].attempts + 1])
              ELSE IF SmartNew(fps.call[h].cls) # "none"
              THEN FpsFinish([fps EXCEPT !.hd[h] =
                                            FpsOpened(fps, FpsName, fps.call[h].cls)],
                             h,
                             [op |-> "open", exc |-> SmartNew(fps.call[h].cls),
                              h |-> h, attempts |-> fps.call[h].attempts + 1])
              ELSE IF fps.call[h].cls \in SmartClasses
              THEN [fps EXCEPT !.hd[h] = FpsOpened(fps, FpsName, fps.call[h].cls),
                               !.pc[h] = "open_schema",
                               !.call[h].attempts = @ + 1]
              ELSE FpsFinish([fps EXCEPT !.hd[h] =
                                            FpsOpened(fps, FpsName, fps.call[h].cls)],
                             h,
                             [op |-> "open", exc |-> "none", h |-> h,
                              attempts |-> fps.call[h].attempts + 1])
    /\ UNCHANGED <<xf, shmVars>>

\* cls(name): cls.__new__, then FPS.__init__: CPTFPS(name), RuntimeError turned
\* into FPSDoesntExistError, and key_types
FpsOpenAttach(h) ==
    /\ fps.pc[h] = "open_attach"
    /\ fps' = IF SmartNew(fps.call[h].cls) # "none"
              THEN FpsFinish(fps, h,
                             [op |-> "open", exc |-> SmartNew(fps.call[h].cls),
                              h |-> h, attempts |-> fps.call[h].attempts])
              ELSE IF fps.file = 0
              THEN FpsFinish(fps, h,
                             [op |-> "open", exc |-> "FPSDoesntExistError",
                              h |-> h, attempts |-> fps.call[h].attempts + 1])
              ELSE IF fps.call[h].cls \in SmartClasses
              THEN [fps EXCEPT !.hd[h] = FpsOpened(fps, FpsName, fps.call[h].cls),
                               !.pc[h] = "open_schema",
                               !.call[h].attempts = @ + 1]
              ELSE FpsFinish([fps EXCEPT !.hd[h] =
                                            FpsOpened(fps, FpsName, fps.call[h].cls)],
                             h,
                             [op |-> "open", exc |-> "none", h |-> h,
                              attempts |-> fps.call[h].attempts + 1])
    /\ UNCHANGED <<xf, shmVars>>

\* fps.add_entry(key, comment, datatype, flags) on resource r; keep says whether
\* an entry already registered keeps its value (it does: fps_test.py,
\* test_downcasting reads the value set before the second registration)
FpsAddEntry(r, key, datatype, keep) ==
    IF key \in DOMAIN r.entries /\ keep THEN r
    ELSE [r EXCEPT !.entries =
             [k \in DOMAIN @ \cup {key} |->
                 IF k = key THEN [type |-> datatype, value |-> FpsDefault(key)]
                 ELSE @[k]]]

\* FPS.add_param on the fields of handle h
FpsAddParam(f, h, key, datatype, keep) ==
    [f EXCEPT !.res[f.hd[h].fps] = FpsAddEntry(@, key, datatype, keep),
              !.hd[h].key_types =
                  [k \in DOMAIN @ \cup {key} |-> IF k = key THEN datatype ELSE @[k]]]

\* SmartAttributesFPS.__init__ after FPS.__init__: add_param of every key of
\* _DICT_METADATA (one key at most in the classes modelled)
SmartAddParams(f, h) ==
    LET keys == DOMAIN DictMetadata(f.hd[h].cls)
    IN  IF keys = {} THEN f
        ELSE LET key == CHOOSE k \in keys : TRUE
             IN  FpsAddParam(f, h, key, FpsTypeOf(key), TRUE)

\* cls(name) on a subclass of SmartAttributesFPS: the rest of __init__
FpsOpenSchema(h) ==
    /\ fps.pc[h] = "open_schema"
    /\ fps' = FpsFinish(SmartAddParams(fps, h), h,
                        [op |-> "open", exc |-> "none", h |-> h,
                         attempts |-> fps.call[h].attempts])
    /\ UNCHANGED <<xf, shmVars>>

\* add_param, set_param or get_param is called on an attached handle
FpsParamStart(h, c) ==
    /\ fps.pc[h] = "idle"
    /\ FpsAttached(h)
    /\ fps' = [fps EXCEPT !.pc[h] = c.op, !.call[h] = c, !.ret = FpsNoRet]
    /\ UNCHANGED <<xf, shmVars>>

\* add_param(key, comment, datatype, flags)
FpsAddParamCall(h) ==
    /\ fps.pc[h] = "add_param"
    /\ \E keep \in {TRUE} :
          LET key == fps.call[h].key
          IN  fps' = FpsFinish(FpsAddParam(fps, h, key, FpsTypeOf(key), keep), h,
                               [op |-> "add_param", exc |-> "none", h |-> h,
                                key |-> key])
    /\ UNCHANGED <<xf, shmVars>>

\* set_param storing although the key is unknown to the handle
FpsSetParam_implicit(f, h, key, value) ==
    [FpsAddParam(f, h, key, FpsTypeOf(key), TRUE)
        EXCEPT !.res[f.hd[h].fps].entries[key].value = value]

\* FPS.set_param on the state f: the state afterwards, or the fault
FpsSetParam(f, h, key, value) ==
    IF key \in DOMAIN f.hd[h].key_types
    THEN [f EXCEPT !.res[f.hd[h].fps].entries[key].value = value]
    ELSE Raise("ValueError")

\* set_param(key, value)
FpsSetParamCall(h) ==
    /\ fps.pc[h] = "set_param"
    /\ LET key == fps.call[h].key
           value == fps.call[h].value
           after == FpsSetParam(fps, h, key, value)
       IN  fps' = IF IsErr(after)
                  THEN FpsFinish(fps, h, [op |-> "set_param", exc |-> after.err,
                                          h |-> h, key |-> key, value |-> value])
                  ELSE FpsFinish(after, h, [op |-> "set_param", exc |-> "none",
                                            h |-> h, key |-> key, value |-> value])
    /\ UNCHANGED <<xf, shmVars>>

\* FPS.get_param: the value (as [val |-> ..]), or the fault
FpsGetParam(f, h, key) ==
    IF key \in DOMAIN f.hd[h].key_types
    THEN [val |-> f.res[f.hd[h].fps].entries[key].value]
    ELSE Raise("ValueError")

\* get_param(key)
FpsGetParamCall(h) ==
    /\ fps.pc[h] = "get_param"
    /\ LET key == fps.call[h].key
           v == FpsGetParam(fps, h, key)
       IN  fps' = IF IsErr(v)
                  THEN FpsFinish(fps, h, [op |-> "get_param", exc |-> v.err,
                                          h |-> h, key |-> key])
                  ELSE FpsFinish(fps, h, [op |-> "get_param", exc |-> "none",
                                          h |-> h, key |-> key, val |-> v.val])
    /\ UNCHANGED <<xf, shmVars>>

\* destroy(): os.remove(fps_filepath)
FpsDestroy(h) ==
    /\ fps.pc[h] = "idle"
    /\ FpsAttached(h)
    /\ fps' = IF fps.file = 0
              THEN FpsFinish(fps, h, [op |-> "destroy", exc |-> "FileNotFoundError",
                                      h |-> h])
              ELSE FpsFinish([fps EXCEPT !.file = 0], h,
                             [op |-> "destroy", exc |-> "none", h |-> h])
    /\ UNCHANGED <<xf, shmVars>>

\* FPS.create(name, force_recreate) on class cls begins
FpsCreateStart(h, cls, force) ==
    /\ fps.pc[h] = "idle"
    /\ Len(fps.res) < MaxFpsRes
    /\ fps' = [fps EXCEPT !.pc[h] = "create_remove",
                          !.call[h] = [op |-> "create", cls |-> cls, force |-> force,
                                       existed |-> FALSE, log |-> <<>>,
                                       file0 |-> fps.file],
                          !.ret = FpsNoRet]
    /\ UNCHANGED <<xf, shmVars>>

\* create: if force_recreate and os.path.exists(..): os.remove(..)
FpsCreateRemove(h) ==
    /\ fps.pc[h] = "create_remove"
    /\ fps' = IF fps.call[h].force /\ fps.file # 0
              THEN [fps EXCEPT !.file = 0, !.pc[h] = "create_alloc",
                               !.call[h].existed = TRUE,
                               !.call[h].log = Append(@, "remove")]
              ELSE [fps EXCEPT !.pc[h] = "create_alloc",
                               !.call[h].existed = (fps.file # 0)]
    /\ UNCHANGED <<xf, shmVars>>

\* create: os.system('milk-exec "fpscreate ..."'), an external program whose
\* exit status is not read: it has made a new resource under the name, or it
\* has left the name as it was
FpsCreateAlloc(h) ==
    /\ fps.pc[h] = "create_alloc"
    /\ \E made \in BOOLEAN :
          fps' = IF made
                 THEN [fps EXCEPT !.res = Append(@, FpsNewResource),
                                  !.file = Len(fps.res) + 1,
                                  !.pc[h] = "create_attach",
                                  !.call[h].log = Append(@, "allocate")]
                 ELSE [fps EXCEPT !.pc[h] = "create_attach",
                                  !.call[h].log = Append(@, "allocate")]
    /\ UNCHANGED <<xf, shmVars>>

\* create attaching as the base class whatever cls is
FpsCreateAttach_baseClass(h) ==
    /\ fps.pc[h] = "create_attach"
    /\ fps' = IF fps.file = 0
              THEN FpsFinish(fps, h,
                             [op |-> "create", exc |-> "FPSDoesntExistError", h |-> h])
              ELSE [fps EXCEPT !.hd[h] = FpsOpened(fps, FpsName, "FPS"),
                               !.pc[h] = "create_add",
                               !.call[h].log = Append(@, "attach")]
    /\ UNCHANGED <<xf, shmVars>>

\* create: fps = cls(name), that is cls.__new__ and FPS.__init__
FpsCreateAttach(h) ==
    /\ fps.pc[h] = "create_attach"
    /\ fps' = IF SmartNew(fps.call[h].cls) # "none"
              THEN FpsFinish(fps, h,
                             [op |-> "create", exc |-> SmartNew(fps.call[h].cls),
                              h |-> h, cls |-> fps.call[h].cls,
                              force |-> fps.call[h].force,
                              file0 |-> fps.call[h].file0,
                              log |-> fps.call[h].log])
              ELSE IF fps.file = 0
              THEN FpsFinish(fps, h,
                             [op |-> "create", exc |-> "FPSDoesntExistError", h |-> h])
              ELSE [fps EXCEPT !.hd[h] = FpsOpened(fps, FpsName, fps.call[h].cls),
                               !.pc[h] = IF fps.call[h].cls \in SmartClasses
                                         THEN "create_schema" ELSE "create_add",
                               !.call[h].log = Append(@, "attach")]
    /\ UNCHANGED <<xf, shmVars>>

\* create: fps = cls(name) on a subclass of SmartAttributesFPS, the rest of
\* __init__
FpsCreateSchema(h) ==
    /\ fps.pc[h] = "create_schema"
    /\ fps' = [SmartAddParams(fps, h) EXCEPT !.pc[h] = "create_add"]
    /\ UNCHANGED <<xf, shmVars>>

\* create: fps.add_param('Name', 'Name', FPS_type.STRING, FPS_flags.DEFAULT_STATUS)
FpsCreateAddName(h) ==
    /\ fps.pc[h] = "create_add"
    /\ \E keep \in {TRUE} :
          fps' = [FpsAddParam(fps, h, "Name", "STRING", keep)
                     EXCEPT !.pc[h] = "create_set",
                            !.call[h].log = Append(@, "add_param Name")]
    /\ UNCHANGED <<xf, shmVars>>

\* create: fps['Name'] = name
FpsCreateSetName(h) ==
    /\ fps.pc[h] = "create_set"
    /\ LET after == FpsSetParam(fps, h, "Name", fps.hd[h].name)
       IN  fps' = IF IsErr(after)
                  THEN FpsFinish(fps, h, [op |-> "create", exc |-> after.err, h |-> h])
                  ELSE [after EXCEPT !.pc[h] = "create_hook",
                                     !.call[h].log = Append(@, "set Name")]
    /\ UNCHANGED <<xf, shmVars>>

\* create: fps.post_create_set_defaults(); return fps
FpsCreateHook(h) ==
    /\ fps.pc[h] = "create_hook"
    /\ fps' = FpsFinish(fps, h,
                        [op |-> "create", exc |-> "none", h |-> h,
                         cls |-> fps.call[h].cls, force |-> fps.call[h].force,
                         existed |-> fps.call[h].existed,
                         log |-> Append(fps.call[h].log, "post_create_set_defaults")])
    /\ UNCHANGED <<xf, shmVars>>

\* timeoutsync values: 0 stands for None and for 0.0, both falsy; a positive
\* value is a duration in clock ticks
MaxTimeout == 2

FpsCtlOps == {"conf_start", "conf_stop", "run_start", "run_stop"}

\* the status codes CONFstart, CONFstop, RUNstart and RUNstop may return
FpsStatuses == {0 - 1, 0, 1}

\* _errno_raiser faulting on positive codes only
errno_raiser_positive(retcode, info) ==
    IF retcode > 0
    THEN [err |-> "FPSErrnoError", code |-> retcode, info |-> info]
    ELSE [err |-> "none"]

\* FPS._errno_raiser: the fault raised, [err |-> "none"] when it returns
errno_raiser(retcode, info) ==
    IF retcode # 0
    THEN [err |-> "FPSErrnoError", code |-> retcode, info |-> info]
    ELSE [err |-> "none"]

\* conf_isrunning() for the conf calls, run_isrunning() for the run calls, on
\* resource r
FpsIsRunning(r, op) ==
    IF op \in {"conf_start", "conf_stop"} THEN r.CONFrunning = 1
    ELSE r.RUNrunning = 1

\* the loop of op goes on while the state is not this one
FpsCtlTarget(op) == op \in {"conf_start", "run_start"}

\* conf_start, conf_stop, run_start, run_stop (timeoutsync) begin
FpsCtlStart(h, op, timeoutsync) ==
    /\ fps.pc[h] = "idle"
    /\ FpsAttached(h)
    /\ fps' = [fps EXCEPT !.pc[h] = "ctl_call",
                          !.call[h] = [op |-> op, timeoutsync |-> timeoutsync,
                                       polls |-> 0, elapsed |-> 0],
                          !.ret = FpsNoRet]
    /\ UNCHANGED <<xf, shmVars>>

\* self._errno_raiser(self.fps.CONFstart(), 'conf_start') and the test of
\* timeoutsync; the native call returns any status
FpsCtlCall(h) ==
    /\ fps.pc[h] = "ctl_call"
    /\ \E status \in FpsStatuses :
          LET c == fps.call[h]
              e == errno_raiser(status, c.op)
              record == [op |-> c.op, h |-> h, status |-> status,
                         timeoutsync |-> c.timeoutsync, exc |-> e.err, fault |-> e,
                         polls |-> 0, elapsed |-> 0, reached |-> FALSE]
          IN  fps' = IF e.err # "none" \/ c.timeoutsync = 0
                     THEN FpsFinish(fps, h, record)
                     ELSE [fps EXCEPT !.pc[h] = "ctl_poll",
                                      !.call[h] = record]
    /\ UNCHANGED <<xf, shmVars>>

\* one evaluation of the loop condition, and time.sleep(1e-4) when it holds; the
\* clock advances by one tick over a sleep
FpsCtlPoll(h) ==
    /\ fps.pc[h] = "ctl_poll"
    /\ LET c == fps.call[h]
           reached == FpsIsRunning(fps.res[fps.hd[h].fps], c.op) = FpsCtlTarget(c.op)
       IN  fps' = IF ~reached /\ c.elapsed < c.timeoutsync
                  THEN [fps EXCEPT !.call[h].polls = @ + 1,
                                   !.call[h].elapsed = @ + 1]
                  ELSE FpsFinish(fps, h, [c EXCEPT !.polls = @ + 1,
                                                   !.reached = reached])
    /\ UNCHANGED <<xf, shmVars>>

\* the processes the control calls launch and stop set the run states of
\* resource i on their own time
FpsProcess(i) ==
    /\ i \in 1..Len(fps.res)
    /\ \E c \in 0..1, r \in 0..1 :
          /\ <<c, r>> # <<fps.res[i].CONFrunning, fps.res[i].RUNrunning>>
          /\ fps' = [fps EXCEPT !.res[i].CONFrunning = c, !.res[i].RUNrunning = r]
    /\ UNCHANGED <<xf, shmVars>>

FpsInit == xf = XfOff /\ ShmOff /\ fps = FpsOff

\* handle "f" creates the tree, registers parameters and destroys it; handle
\* "g" opens it afresh; both set and get
FpsNext ==
    \/ /\ FpsAllIdle
       /\ \/ \E cls \in FpsClasses, force \in BOOLEAN : FpsCreateStart("f", cls, force)
          \/ \E key \in FpsKeys : FpsParamStart("f", [op |-> "add_param", key |-> key])
          \/ FpsDestroy("f")
          \/ \E cls \in FpsClasses : FpsOpenStart("g", cls)
          \/ \E h \in FpsHandles, key \in FpsKeys : \E value \in FpsValuesOf(key) :
                FpsParamStart(h, [op |-> "set_param", key |-> key, value |-> value])
          \/ \E h \in FpsHandles, key \in FpsKeys :
                FpsParamStart(h, [op |-> "get_param", key |-> key])
    \/ \E h \in FpsHandles :
          \/ FpsCreateRemove(h)
          \/ FpsCreateAlloc(h)
          \/ FpsCreateAttach(h)
          \/ FpsCreateAddName(h)
          \/ FpsCreateSetName(h)
          \/ FpsCreateHook(h)
          \/ FpsOpenAttach(h)
          \/ FpsAddParamCall(h)
          \/ FpsSetParamCall(h)
          \/ FpsGetParamCall(h)

SpecFps == FpsInit /\ [][FpsNext]_vars

\* what add_param, set_param and get_param have done when they return
ParamCallReturns ==
    (fps'.ret # fps.ret /\ fps'.ret.op \in {"add_param", "set_param", "get_param"}) =>
        LET r == fps'.ret
            i == fps.hd[r.h].fps
            before == fps.res[i].entries
            after == fps'.res[i].entries
        IN  /\ (r.op # "add_param" /\ r.key \notin DOMAIN before) =>
                  /\ r.exc = "ValueError"
                  /\ fps'.res = fps.res
            /\ r.op = "add_param" =>
                  /\ r.exc = "none"
                  /\ r.key \in DOMAIN fps'.hd[r.h].key_types
                  /\ r.key \in DOMAIN after
            /\ (r.op = "set_param" /\ r.key \in DOMAIN fps.hd[r.h].key_types) =>
                  /\ r.exc = "none"
                  /\ DOMAIN after = DOMAIN before
                  /\ after[r.key].value = r.value
                  /\ \A k \in DOMAIN before \ {r.key} : after[k] = before[k]
            /\ (r.op = "get_param" /\ r.key \in DOMAIN fps.hd[r.h].key_types) =>
                  /\ r.exc = "none"
                  /\ r.val = before[r.key].value
                  /\ fps'.res = fps.res

(***************************************************************************)
(* C14: get_param and set_param on a key never registered on the tree      *)
(* raise ValueError and leave the store as it is: no entry is created, no  *)
(* value changes.  add_param makes the key known to the handle and to the  *)
(* tree; on a key known to the handle set_param stores the value given and *)
(* get_param returns the value stored, so that set_param(key, v) followed  *)
(* by get_param(key) returns v.                                            *)
(***************************************************************************)
C14_InvalidKey == [][ParamCallReturns]_vars

\* set_param has faulted on a key the tree does not hold
C14_Witness ==
    /\ fps.ret.op = "set_param"
    /\ fps.ret.exc = "ValueError"
    /\ fps.ret.key \notin DOMAIN fps.res[fps.hd[fps.ret.h].fps].entries

\* what FPS.create has done when it returns its handle
CreateReturns ==
    (fps'.ret # fps.ret /\ fps'.ret.op = "create" /\ fps'.ret.exc = "none") =>
        LET r == fps'.ret
            steps == <<"allocate", "attach", "add_param Name", "set Name",
                       "post_create_set_defaults">>
            fresh == [fps' EXCEPT !.hd["g"] = FpsOpened(fps', FpsName, "FPS")]
        IN  /\ r.log = IF r.force /\ r.existed THEN <<"remove">> \o steps ELSE steps
            /\ fps'.file # 0
            /\ fps'.hd[r.h].built
            /\ fps'.hd[r.h].fps = fps'.file
            /\ fps'.hd[r.h].cls = r.cls
            /\ FpsGetParam(fps', r.h, "Name") = [val |-> FpsName]
            /\ FpsGetParam(fresh, "g", "Name") = [val |-> FpsName]

(***************************************************************************)
(* C15: FPS.create does, in this order: the removal of the backing file,   *)
(* only when force_recreate is set and the file exists; the allocation;    *)
(* the attach; add_param of 'Name'; the assignment of the name to 'Name';  *)
(* post_create_set_defaults.  When it returns, the file of the name        *)
(* exists, the handle returned is attached to it and is of the class       *)
(* create was called on, get_param('Name') is the name, and a fresh open   *)
(* of the name reads the same 'Name'.                                      *)
(***************************************************************************)
C15_CreateOrder == [][CreateReturns]_vars

\* a subclass has created the tree again over an existing one
C15_Witness ==
    /\ fps.ret.op = "create"
    /\ fps.ret.exc = "none"
    /\ fps.ret.cls = "SubFPS"
    /\ fps.ret.force
    /\ fps.ret.existed
    /\ fps.hd["f"].cls = "SubFPS"

\* a stream that w creates again and again while r opens it, and a tree that
\* f creates and destroys while g opens it
NotFoundInit == xf = XfOff /\ ShmOff /\ fps = FpsOff

NotFoundNext ==
    \/ \E base \in {10 * Len(res)} :
          CreateStart("w", Ramp(<<2>>, "f8", base), 0, LAST2LAST)
    \/ CreateCheckExists("w")
    \/ CreateDestroy("w")
    \/ CreateCreate("w")
    \/ \E a \in BOOLEAN : OpenStart("r", a, 0, LAST2LAST, 0)
    \/ OpenCheckExists("r")
    \/ /\ FpsAllIdle
       /\ \/ \E cls \in FpsClasses, force \in BOOLEAN : FpsCreateStart("f", cls, force)
          \/ FpsDestroy("f")
          \/ \E cls \in FpsClasses : FpsOpenStart("g", cls)
    \/ FpsCreateRemove("f")
    \/ FpsCreateAlloc("f")
    \/ FpsCreateAttach("f")
    \/ FpsCreateAddName("f")
    \/ FpsCreateSetName("f")
    \/ FpsCreateHook("f")
    \/ FpsOpenAttach("g")

SpecNotFound == NotFoundInit /\ [][NotFoundNext]_vars

\* what an open on a name without resource, and destroy, have done when they
\* return
OpenOrDestroyReturns ==
    /\ (ret' # ret /\ ret'.op = "open" /\ file = 0) =>
          /\ ret'.exc = "FileNotFoundError"
          /\ ret'.attempts = 1
          /\ file' = 0
          /\ res' = res
          /\ hd' = hd
    /\ (fps'.ret # fps.ret /\ fps'.ret.op = "open" /\ fps.file = 0) =>
          /\ fps'.ret.exc = "FPSDoesntExistError"
          /\ fps'.ret.attempts = 1
          /\ fps'.file = 0
          /\ fps'.res = fps.res
          /\ fps'.hd = fps.hd
    /\ (fps'.ret # fps.ret /\ fps'.ret.op = "destroy") => fps'.file = 0

(***************************************************************************)
(* C13: an open of a name that has no resource, never created or created   *)
(* and destroyed, raises FileNotFoundError for a stream and                *)
(* FPSDoesntExistError for a parameter tree after one attach attempt, and  *)
(* creates nothing: the name is still without file, no resource is added   *)
(* and no handle is bound.  After FPS.destroy() the file of the name is    *)
(* absent.                                                                 *)
(***************************************************************************)
C13_NotFound == [][OpenOrDestroyReturns]_vars

\* both opens have failed on names that were created before and destroyed
C13_Witness ==
    /\ ret.op = "open"
    /\ ret.exc = "FileNotFoundError"
    /\ Len(res) > 0
    /\ fps.ret.op = "open"
    /\ fps.ret.exc = "FPSDoesntExistError"
    /\ Len(fps.res) > 0

\* a tree created and attached by handle "f", for the control calls
FpsCtlInit ==
    /\ xf = XfOff
    /\ ShmOff
    /\ \E cls \in FpsClasses :
          LET made == [FpsOff EXCEPT !.file = 1, !.res = <<FpsNewResource>>]
              att  == [made EXCEPT !.hd["f"] = FpsOpened(made, FpsName, cls)]
          IN  fps = [FpsSetParam(FpsAddParam(att, "f", "Name", "STRING", FALSE),
                                 "f", "Name", FpsName)
                        EXCEPT !.ret = [op |-> "create", exc |-> "none", h |-> "f",
                                        cls |-> cls, force |-> FALSE, existed |-> FALSE,
                                        log |-> <<"allocate", "attach", "add_param Name",
                                                  "set Name", "post_create_set_defaults">>]]

FpsCtlNext ==
    \/ \E op \in FpsCtlOps, t \in 0..MaxTimeout : FpsCtlStart("f", op, t)
    \/ FpsCtlCall("f")
    \/ FpsCtlPoll("f")
    \/ FpsProcess(1)

SpecFpsCtl == FpsCtlInit /\ [][FpsCtlNext]_vars

\* what a control call has done when it returns
ControlCallReturns ==
    (fps'.ret # fps.ret /\ fps'.ret.op \in FpsCtlOps) =>
          LET r == fps'.ret
              now == fps.res[fps.hd[r.h].fps]
              atTarget == CASE r.op = "conf_start" -> now.CONFrunning = 1
                            [] r.op = "conf_stop"  -> now.CONFrunning # 1
                            [] r.op = "run_start"  -> now.RUNrunning = 1
                            [] r.op = "run_stop"   -> now.RUNrunning # 1
          IN  /\ (r.exc = "FPSErrnoError") <=> (r.status # 0)
              /\ r.status # 0 =>
                    /\ r.fault = [err |-> "FPSErrnoError", code |-> r.status,
                                  info |-> r.op]
                    /\ r.polls = 0
              /\ r.status = 0 =>
                    /\ r.exc = "none"
                    /\ r.timeoutsync = 0 => r.polls = 0
                    /\ r.timeoutsync > 0 =>
                          /\ r.polls >= 1
                          /\ r.reached = atTarget
                          /\ atTarget \/ r.elapsed >= r.timeoutsync
                          /\ r.polls = r.elapsed + 1

(***************************************************************************)
(* C16: conf_start, conf_stop, run_start and run_stop raise FPSErrnoError  *)
(* with the status code and the operation name exactly when the control    *)
(* call returns a nonzero status, and then never poll.  On status zero the *)
(* call does not fault: without a timeout it returns without polling, with *)
(* a timeout it returns once the run state it polls, CONFrunning for the   *)
(* conf calls and RUNrunning for the run calls, is the target or the       *)
(* timeout has elapsed.                                                    *)
(***************************************************************************)
C16_ControlCalls == [][ControlCallReturns]_vars

\* a control call with a timeout returned normally although the state never
\* reached the target
C16_Witness ==
    /\ fps.ret.op \in FpsCtlOps
    /\ fps.ret.status = 0
    /\ fps.ret.timeoutsync > 0
    /\ ~fps.ret.reached
    /\ fps.ret.elapsed = fps.ret.timeoutsync

(***************************************************************************)
(* isio_shmlib.py: check_SHM_name.  A string is the sequence of its        *)
(* characters.  The names given are made of the pieces "/", "r", "x" and   *)
(* ".im.shm"; MILK_SHM_DIR, read from the environment, is the directory /r *)
(* written with or without a trailing separator.                           *)
(***************************************************************************)
\* pieces of a name given to check_SHM_name
MaxName == 6

IM_SHM == <<".", "i", "m", ".", "s", "h", "m">>

NamePieces == {<<"/">>, <<"r">>, <<"x">>, IM_SHM}

ShmDirs == {<<"/", "r">>, <<"/", "r", "/">>}

RECURSIVE Concat(_)
Concat(pieces) ==
    IF pieces = <<>> THEN <<>> ELSE Head(pieces) \o Concat(Tail(pieces))

\* str.endswith and str.startswith
endswith(str, suffix) ==
    /\ Len(str) >= Len(suffix)
    /\ SubSeq(str, Len(str) - Len(suffix) + 1, Len(str)) = suffix

startswith(str, prefix) ==
    /\ Len(str) >= Len(prefix)
    /\ SubSeq(str, 1, Len(prefix)) = prefix

\* "/" in str
HasSlash(str) == \E i \in DOMAIN str : str[i] = "/"

\* str.rfind("/") + 1
AfterLastSlash(str) == MaxOf({i \in DOMAIN str : str[i] = "/"})

\* str.rstrip("/")
rstrip(str) == SubSeq(str, 1, MaxOf({i \in DOMAIN str : str[i] # "/"}))

\* os.path.split (posixpath): head and tail around the last separator, the
\* trailing separators of the head removed unless it holds nothing else
os_path_split(p) ==
    LET i == AfterLastSlash(p)
        head == SubSeq(p, 1, i)
        tail == SubSeq(p, i + 1, Len(p))
    IN  [pre |-> IF head # <<>> /\ rstrip(head) # <<>> THEN rstrip(head) ELSE head,
         end |-> tail]

\* fname[:-7] if fname.endswith(".im.shm") else fname
StripExtension(str) ==
    IF endswith(str, IM_SHM) THEN SubSeq(str, 1, Len(str) - 7) ELSE str

\* check_SHM_name(fname) under the environment value dir: [name |-> ..], or the
\* fault
check_SHM_name(fname, dir) ==
    IF ~HasSlash(fname) THEN [name |-> StripExtension(fname)]
    ELSE LET pre == os_path_split(fname).pre
             end == os_path_split(fname).end
         IN  IF \/ ~startswith(pre, dir)
                \/ (Len(pre) > Len(dir) /\ pre[Len(dir) + 1] # "/")
             THEN Raise("ValueError")
             ELSE IF HasSlash(SubSeq(pre, Len(dir) + 1, Len(pre)))
             THEN Raise("ValueError")
             ELSE [name |-> StripExtension(end)]

NameInit ==
    /\ \E dir \in ShmDirs :
          xf = [MILK_SHM_DIR |-> dir, fname |-> <<>>, y |-> [name |-> <<>>],
                hist |-> <<>>]
    /\ ShmOff
    /\ fps = FpsOff

\* check_SHM_name(fname) is called
NameCheck(fname) ==
    /\ xf.hist = <<>>
    /\ xf' = [xf EXCEPT !.fname = fname,
                        !.y = check_SHM_name(fname, xf.MILK_SHM_DIR),
                        !.hist = <<"check_SHM_name">>]
    /\ UNCHANGED <<shmVars, fps>>

NameNext ==
    \E n \in 0..MaxName : \E pieces \in [1..n -> NamePieces] : NameCheck(Concat(pieces))

SpecName == NameInit /\ [][NameNext]_vars

\* the directory a path names: what precedes its last separator, trailing
\* separators dropped
DirOf(path) ==
    LET head == SubSeq(path, 1, AfterLastSlash(path))
    IN  IF rstrip(head) = <<>> THEN <<"/">> ELSE rstrip(head)

\* the name with one trailing ".im.shm" removed
Bare(str) ==
    IF Len(str) >= 7 /\ SubSeq(str, Len(str) - 6, Len(str)) = IM_SHM
    THEN SubSeq(str, 1, Len(str) - 7)
    ELSE str

(***************************************************************************)
(* C20: check_SHM_name never returns a name that holds a separator.  A     *)
(* name with a separator is accepted only when its directory is the        *)
(* configured directory, and ValueError is raised for every other          *)
(* directory: outside of it, a sibling that has it as a string prefix, a   *)
(* subdirectory of it.  A trailing ".im.shm" is removed: x, x.im.shm and   *)
(* <MILK_SHM_DIR>/x.im.shm give the same name x.                           *)
(***************************************************************************)
C20_CheckShmName ==
    xf.hist = <<"check_SHM_name">> =>
        LET dir == xf.MILK_SHM_DIR
            fname == xf.fname
            tail == SubSeq(fname, AfterLastSlash(fname) + 1, Len(fname))
        IN  /\ ~IsErr(xf.y) => ~HasSlash(xf.y.name)
            /\ (HasSlash(fname) /\ ~IsErr(xf.y)) => DirOf(fname) = DirOf(dir \o <<"/">>)
            /\ (HasSlash(fname) /\ DirOf(fname) # DirOf(dir \o <<"/">>))
                  => xf.y = [err |-> "ValueError"]
            /\ ~HasSlash(fname) => xf.y = [name |-> Bare(fname)]
            /\ fname = dir \o <<"/">> \o tail => xf.y = [name |-> Bare(tail)]

(***************************************************************************)
(* isio_shmlib.py, SHM.__init__ with data: the order of the native calls   *)
(* on a name that has a resource already.                                  *)
(***************************************************************************)

\* one step of the create branch of SHM.__init__
CreateBranchStep(h) ==
    /\ (pc[h] = "create_exists" /\ pc'[h] # "create_exists")
          => /\ ~call[h].destroyed
             /\ file' = file /\ res' = res
             /\ pc'[h] = IF file # 0 THEN "create_destroy" ELSE "create_create"
    /\ (pc[h] = "create_destroy" /\ pc'[h] # "create_destroy")
          => /\ file # 0 /\ file' = 0 /\ res' = res
             /\ call'[h].destroyed
             /\ pc'[h] = "create_create"
    /\ (pc[h] = "create_create" /\ pc'[h] # "create_create")
          => /\ file = 0
             /\ Len(res') = Len(res) + 1 /\ file' = Len(res')
             /\ SubSeq(res', 1, Len(res)) = res
             /\ pc'[h] = "idle"
             /\ ret'.op = "create" /\ ret'.exc = "none"
             /\ ret'.destroyed = call[h].destroyed

CheckSemTrywait(h) ==
    /\ pc[h] = "idle"
    /\ Attached(h)
    /\ \E s \in SemChoices(hd[h]) :
          /\ hd' = [hd EXCEPT ![h].semID = s]
          /\ res' = [res EXCEPT ![hd[h].IMAGE].sem[s] = IF @ > 0 THEN @ - 1 ELSE 0]
          /\ ret' = [op |-> "check_sem_trywait", exc |-> "none", h |-> h,
                     val |-> IF res[hd[h].IMAGE].sem[s] > 0 THEN 1 ELSE 0]
    /\ UNCHANGED <<xf, fps, file, pc, call>>

\* check_sem_value: _checkGrabSemaphore() and IMAGE.semvalue(semID)
CheckSemValue(h) ==
    /\ pc[h] = "idle"
    /\ Attached(h)
    /\ \E s \in SemChoices(hd[h]) :
          /\ hd' = [hd EXCEPT ![h].semID = s]
          /\ ret' = [op |-> "check_sem_value", exc |-> "none", h |-> h,
                     val |-> res[hd[h].IMAGE].sem[s]]
    /\ UNCHANGED <<xf, fps, file, res, pc, call>>

\* writes to one resource
MaxSemCnt == 1

SemInit == xf = XfOff /\ fps = FpsOff /\ ShmOff

SemNext ==
    \E h \in Handles :
        \/ /\ AllIdle /\ ~hd[h].built
           /\ CreateStart(h, Ramp(<<2>>, "f8", 0), 4, LAST2LAST)
        \/ CreateCheckExists(h)
        \/ CreateDestroy(h)
        \/ CreateCreate(h)
        \/ /\ AllIdle /\ h = "r" /\ ~hd[h].built
           /\ \E s \in 0..(NSem - 1) : OpenStart(h, TRUE, 4, LAST2LAST, s)
        \/ OpenCheckExists(h)
        \/ /\ AllIdle /\ Attached(h)
           /\ \E check \in BOOLEAN : GetDataStartTimeout(h, check, TRUE, TRUE, 5)
        \/ RelinkStat(h)
        \/ RelinkReopen(h)
        \/ GetDataFlush(h)
        \/ GetDataWait(h)
        \/ GetDataTimeout(h)
        \/ GetDataRead(h)
        \/ /\ h = "w" /\ Attached(h) /\ CounterOf(h) < MaxSemCnt
           /\ SetDataStart(h, Ramp(hd[h].shape, hd[h].nptype, 0), TRUE)
        \/ SetDataWrite(h)
        \/ AllIdle /\ h = "r" /\ CheckSemTrywait(h)
        \/ AllIdle /\ h = "w" /\ CheckSemValue(h)

SpecSem == SemInit /\ [][SemNext]_vars

\* the step builds the object of handle h anew
Constructs(h) == pc'[h] = "create_exists" \/ pc[h] = "open_exists"

\* the step of handle h belongs to a wait operation
WaitOperationStep(h) ==
    \/ pc[h] # "idle" /\ call[h].op \in {"get_data", "multi_recv_data"}
    \/ pc[h] = "idle" /\ ret' # ret /\ ret'.op \in {"check_sem_trywait", "check_sem_value"}

(***************************************************************************)
(* C26 as stated: a handle holds no semaphore index until its first wait   *)
(* operation.                                                              *)
(***************************************************************************)
C26_NoIndexBeforeWait ==
    [][\A h \in Handles :
         (hd'[h].semID # -1 /\ (hd[h].semID = -1 \/ Constructs(h)))
            => WaitOperationStep(h)]_vars

\* the life of the semaphore index of handle h over one step
SemaphoreIndexStep(h) ==
    /\ pc'[h] = "create_exists" => hd'[h].semID = -1
    /\ (pc[h] = "open_exists" /\ hd'[h] # hd[h]) => hd'[h].semID = call[h].semID
    /\ (~Constructs(h) /\ hd[h].semID # -1) => hd'[h].semID = hd[h].semID
    /\ (~Constructs(h) /\ hd[h].semID = -1 /\ hd'[h].semID # -1)
          => \/ pc[h] \in {"gd_flush", "mr_flush", "relink_reopen"}
             \/ pc[h] = "idle" /\ ret'.op \in {"check_sem_trywait", "check_sem_value"}

(***************************************************************************)
(* C26: a handle built by creation holds no semaphore index until its      *)
(* first wait operation or its first auto-relink reopen, whichever comes   *)
(* first; a handle built by opening holds one from its construction.  The  *)
(* index is requested from the resource only while the handle holds none,  *)
(* and once assigned it never changes, also across the close and reopen    *)
(* done by auto-relink.                                                    *)
(***************************************************************************)
C26_SemaphoreIndex ==
    [][\A h \in Handles : SemaphoreIndexStep(h)]_vars

\* a get_data of a handle that holds index 1 closed and reopened, on the second
\* resource of the name, and the handle holds index 1 still
C26_Witness ==
    /\ ret.op = "get_data" /\ ret.exc = "none"
    /\ ret.reopened /\ ret.src = 2
    /\ hd[ret.h].semID = 1

(***************************************************************************)
(* isio_shmlib.py: a reader with autoSqueeze on a stream made from data    *)
(* that has axes of size 1.                                                *)
(***************************************************************************)

\* np.squeeze(a)
np_squeeze(a) == np_getitem(a, gen_squeeze_unsqueeze_slices(a.shape, TRUE)[1])

\* the last completed call is a get_data of r, opened with autoSqueeze on the
\* symcode and triDim of w, and it read what w made the stream from: data of 2 or
\* 3 axes, one of them at least of size 1
SqueezedRead ==
    /\ ret.op = "get_data" /\ ret.exc = "none" /\ ret.h = "r"
    /\ res[ret.src].by = "w" /\ res[ret.src].cnt0 = 0
    /\ Len(res[ret.src].user.shape) \in {2, 3}
    /\ ~NoUnitAxis(res[ret.src].user.shape)
    /\ hd["r"].readSlice # Ellipsis
    /\ hd["r"].symcode = hd["w"].symcode
    /\ hd["r"].triDimState = hd["w"].triDimState

(***************************************************************************)
(* C29: for a stream created from data d of 2 or 3 dimensions with at      *)
(* least one axis of size 1, get_data() of a reader opened with the same   *)
(* symcode and triDim and with autoSqueeze returns d with its axes of size *)
(* 1 removed, for every symcode and every triDim.                          *)
(***************************************************************************)
C29_SqueezedRoundTrip ==
    SqueezedRead => ret.val = np_squeeze(res[ret.src].user)

(***************************************************************************)
(* shm_functions.py: creashmim.  r calls it on the name w creates the      *)
(* stream under and writes to.  The local shm_handle is hd[h] during the   *)
(* call; symcode and tri_dim are the defaults of creashmim.                *)
(***************************************************************************)

\* np.zeros(shape, dtype=data_type)
np_zeros(shape, dtype) == np_zeros_like(Ramp(shape, dtype, 0))

\* IMAGE.write(data_towrite) through handle h: the resource afterwards
ImageWrite(h, towrite, data) ==
    [res EXCEPT ![hd[h].IMAGE] =
        [@ EXCEPT !.data = towrite,
                  !.cnt0 = @ + 1,
                  !.sem = [i \in DOMAIN @ |-> @[i] + 1],
                  !.user = data,
                  !.by = h]]

\* creashmim(name, shape, data_type, nb_kw, 0, LAST2LAST, delete_existing,
\* attempt_reuse, do_zero) begins
CreashmimStart(h, shape, data_type, nb_kw, delete_existing, attempt_reuse, do_zero) ==
    /\ pc[h] = "idle"
    /\ Len(res) < MaxInode
    /\ file # 0 => res[file].cnt0 < MaxCnt
    /\ call' = [call EXCEPT ![h] =
                   [op |-> "creashmim", shape |-> shape, data_type |-> data_type,
                    nb_kw |-> nb_kw, delete_existing |-> delete_existing,
                    attempt_reuse |-> attempt_reuse, do_zero |-> do_zero,
                    file0 |-> file, res0 |-> res, reused |-> FALSE]]
    /\ pc' = [pc EXCEPT ![h] = IF attempt_reuse THEN "cs_open" ELSE "cs_delete"]
    /\ ret' = NoRet
    /\ UNCHANGED <<xf, fps, file, res, hd>>

\* shm_handle = SHM(name, symcode=symcode, triDim=tri_dim); a fault is caught and
\* the re-use abandoned
CreashmimOpen(h) ==
    /\ pc[h] = "cs_open"
    /\ IF file = 0
       THEN /\ hd' = hd
            /\ pc' = [pc EXCEPT ![h] = "cs_delete"]
       ELSE /\ \E s \in 0..(NSem - 1) :
                  hd' = [hd EXCEPT ![h] =
                            init_internals_read(file, s, res[file].data, -1, TRUE,
                                                0, LAST2LAST)]
            /\ pc' = [pc EXCEPT ![h] = "cs_probe"]
    /\ UNCHANGED <<xf, fps, file, res, call, ret>>

\* shm_handle.set_data(np.zeros(shape, dtype=data_type)); IMAGE.write faults on
\* another shape or type, the fault is caught and the re-use abandoned
CreashmimProbe(h) ==
    /\ pc[h] = "cs_probe"
    /\ LET zeros == np_zeros(call[h].shape, call[h].data_type)
           towrite == EncodeForWire(h, zeros)
           fits == /\ ~IsErr(towrite)
                   /\ towrite.shape = res[hd[h].IMAGE].size
                   /\ towrite.dtype = res[hd[h].IMAGE].dtype
       IN  IF fits
           THEN /\ res' = ImageWrite(h, towrite, zeros)
                /\ pc' = [pc EXCEPT ![h] = "cs_kw"]
           ELSE /\ res' = res
                /\ pc' = [pc EXCEPT ![h] = "cs_delete"]
    /\ UNCHANGED <<xf, fps, file, hd, call, ret>>

\* the record of a completed creashmim
CreashmimReturn(h, c) ==
    [op |-> "creashmim", exc |-> "none", h |-> h, shape |-> c.shape,
     data_type |-> c.data_type, nb_kw |-> c.nb_kw,
     delete_existing |-> c.delete_existing, attempt_reuse |-> c.attempt_reuse,
     do_zero |-> c.do_zero, file0 |-> c.file0, res0 |-> c.res0, reused |-> c.reused]

\* the keyword space test; with do_zero the data is read, zeroed and written;
\* return shm_handle
CreashmimReuse(h) ==
    /\ pc[h] = "cs_kw"
    /\ IF res[hd[h].IMAGE].NBkw < call[h].nb_kw
       THEN /\ pc' = [pc EXCEPT ![h] = "cs_delete"]
            /\ UNCHANGED <<res, call, ret>>
       ELSE /\ res' = IF call[h].do_zero
                      THEN LET data == np_zeros_like(DecodeForUser(h, res[hd[h].IMAGE].data))
                           IN  ImageWrite(h, EncodeForWire(h, data), data)
                      ELSE res
            /\ Finish(h, CreashmimReturn(h, [call[h] EXCEPT !.reused = TRUE]))
    /\ UNCHANGED <<xf, fps, file, hd>>

\* check_SHM_name(name); with delete_existing the file of the name is removed;
\* then SHM(name, (shape, data_type), nbkw=nb_kw, ...) sets its fields
CreashmimDelete(h) ==
    /\ pc[h] = "cs_delete"
    /\ file' = IF call[h].delete_existing THEN 0 ELSE file
    /\ hd' = [hd EXCEPT ![h] =
                 init_internals_creation(np_zeros(call[h].shape, call[h].data_type),
                                         -1, 0, LAST2LAST)]
    /\ pc' = [pc EXCEPT ![h] = "cs_exists"]
    /\ UNCHANGED <<xf, fps, res, call, ret>>

\* SHM.__init__, create branch: _checkExists()
CreashmimCheckExists(h) ==
    /\ pc[h] = "cs_exists"
    /\ hd' = [hd EXCEPT ![h].IMAGE = file]
    /\ pc' = [pc EXCEPT ![h] = IF file # 0 THEN "cs_destroy" ELSE "cs_create"]
    /\ UNCHANGED <<xf, fps, file, res, call, ret>>

\* SHM.__init__, create branch: IMAGE.destroy()
CreashmimDestroy(h) ==
    /\ pc[h] = "cs_destroy"
    /\ file' = IF file = hd[h].IMAGE THEN 0 ELSE file
    /\ hd' = [hd EXCEPT ![h].IMAGE = 0]
    /\ pc' = [pc EXCEPT ![h] = "cs_create"]
    /\ UNCHANGED <<xf, fps, res, call, ret>>

\* SHM.__init__, create branch: IMAGE.create(FNAME, data_c, NBkw=nbkw); with
\* do_zero the zeros are written once more; return shm_handle
CreashmimCreate(h) ==
    /\ pc[h] = "cs_create"
    /\ LET zeros == np_zeros(call[h].shape, call[h].data_type)
           made == [NewResource(CreationData(zeros, 0, LAST2LAST), zeros, h)
                       EXCEPT !.NBkw = call[h].nb_kw]
       IN  res' = Append(res, IF call[h].do_zero
                              THEN [made EXCEPT !.cnt0 = 1,
                                                !.sem = [i \in DOMAIN @ |-> 1]]
                              ELSE made)
    /\ file' = Len(res) + 1
    /\ hd' = [hd EXCEPT ![h].IMAGE = Len(res) + 1]
    /\ Finish(h, CreashmimReturn(h, call[h]))
    /\ UNCHANGED <<xf, fps>>

ReuseShapes == {<<2>>, <<3>>}
ReuseDtypes == {"f8", "i4"}

ReuseInit == xf = XfOff /\ fps = FpsOff /\ ShmOff

ReuseNext ==
    \E h \in Handles :
        \/ /\ AllIdle /\ h = "w"
           /\ \E base \in {10 * (Len(res) + 1)} :
                 CreateStart(h, Ramp(<<2>>, "f8", base), 0, LAST2LAST)
        \/ CreateCheckExists(h)
        \/ CreateDestroy(h)
        \/ CreateCreate(h)
        \/ /\ AllIdle /\ h = "w" /\ Attached(h)
           /\ \E base \in {20 + CounterOf(h)} :
                 SetDataStart(h, Ramp(hd[h].shape, hd[h].nptype, base), TRUE)
        \/ RelinkStat(h)
        \/ RelinkReopen(h)
        \/ SetDataWrite(h)
        \/ /\ AllIdle /\ h = "r"
           /\ \E sh \in ReuseShapes : \E dt \in ReuseDtypes : \E nb \in {nbkw, nbkw + 1} :
              \E de \in BOOLEAN : \E ar \in BOOLEAN : \E dz \in BOOLEAN :
                 CreashmimStart(h, sh, dt, nb, de, ar, dz)
        \/ CreashmimOpen(h)
        \/ CreashmimProbe(h)
        \/ CreashmimReuse(h)
        \/ CreashmimDelete(h)
        \/ CreashmimCheckExists(h)
        \/ CreashmimDestroy(h)
        \/ CreashmimCreate(h)

SpecReuse == ReuseInit /\ [][ReuseNext]_vars

\* the last completed call is creashmim(name, shape, data_type, attempt_reuse=True,
\* do_zero=False) and it began on a stream of that shape and type with enough
\* keyword slots
CompatibleReuse ==
    /\ ret.op = "creashmim" /\ ret.exc = "none"
    /\ ret.attempt_reuse /\ ~ret.do_zero
    /\ ret.file0 # 0
    /\ ret.res0[ret.file0].size = ret.shape
    /\ ret.res0[ret.file0].dtype = ret.data_type
    /\ ret.res0[ret.file0].NBkw >= ret.nb_kw

(***************************************************************************)
(* C30: creashmim(name, shape, data_type, attempt_reuse=True,              *)
(* do_zero=False) on an existing stream of compatible shape, dtype and     *)
(* keyword capacity returns a handle attached to that resource, destroys   *)
(* and recreates nothing, and leaves the data and the write counter of the *)
(* stream unchanged.                                                       *)
(***************************************************************************)
C30_ReuseLeavesStream ==
    CompatibleReuse =>
        /\ hd[ret.h].IMAGE = ret.file0
        /\ file = ret.file0
        /\ Len(res) = Len(ret.res0)
        /\ res[ret.file0].data = ret.res0[ret.file0].data
        /\ res[ret.file0].cnt0 = ret.res0[ret.file0].cnt0

(***************************************************************************)
(* fps.py: subclasses of SmartAttributesFPS.  Class statements are         *)
(* executed, handle "f" creates trees on the classes defined and on FPS    *)
(* and destroys them, handle "g" instantiates the classes on the name.     *)
(***************************************************************************)

\* class statements executed
MaxDefined == 2

\* class cls(SmartAttributesFPS): ... is executed.  SmartAttributesFPS has no
\* __init_subclass__ and no metaclass: the statement binds the class
SmartDefine(cls) ==
    /\ FpsAllIdle
    /\ cls \notin fps.classes
    /\ Cardinality(fps.classes) < MaxDefined
    /\ fps' = [fps EXCEPT !.classes = @ \cup {cls},
                          !.ret = [op |-> "class", exc |-> "none", cls |-> cls]]
    /\ UNCHANGED <<xf, shmVars>>

\* cls.smartfps_downcast(fps) on an attached handle: _cls_metadata_checks and
\* cls(fps.name), whose __new__ runs the checks again
SmartDowncastStart(h, cls, src) ==
    /\ FpsAttached(src)
    /\ FpsOpenStart(h, cls)

SmartInit == FpsInit

SmartNext ==
    \/ \E cls \in SmartClasses : SmartDefine(cls)
    \/ /\ FpsAllIdle
       /\ \/ \E cls \in fps.classes \cup {"FPS"}, force \in BOOLEAN :
                FpsCreateStart("f", cls, force)
          \/ FpsDestroy("f")
          \/ \E cls \in fps.classes : FpsOpenStart("g", cls)
          \/ \E cls \in fps.classes : SmartDowncastStart("g", cls, "f")
    \/ \E h \in FpsHandles :
          \/ FpsCreateRemove(h)
          \/ FpsCreateAlloc(h)
          \/ FpsCreateAttach(h)
          \/ FpsCreateSchema(h)
          \/ FpsCreateAddName(h)
          \/ FpsCreateSetName(h)
          \/ FpsCreateHook(h)
          \/ FpsOpenAttach(h)
          \/ FpsOpenSchema(h)

SpecSmart == SmartInit /\ [][SmartNext]_vars

\* the classes of fps_test.py that the test expects to fault, and H: no
\* schema (A, B), a key missing from the schema (C), a key of the schema that is
\* no attribute (E), a tuple of three items of the wrong types (F), a tuple of
\* two items (H)
InvalidSchema(cls) == cls \in {"A", "B", "C", "E", "F", "H"}

(***************************************************************************)
(* C21 as stated: a subclass with an invalid schema faults when the class  *)
(* is defined.                                                             *)
(***************************************************************************)
C21_FaultsAtDefinition ==
    (fps.ret.op = "class" /\ InvalidSchema(fps.ret.cls))
        => fps.ret.exc = "SmartFPSInitError"

\* cls(name), cls.smartfps_downcast(fps) or cls.create(name) ends
InstantiationReturns ==
    \A h \in FpsHandles :
        (fps.pc[h] # "idle" /\ fps'.pc[h] = "idle"
         /\ fps.call[h].cls \in SmartClasses)
            => /\ InvalidSchema(fps.call[h].cls)
                     => /\ fps'.ret.exc = "SmartFPSInitError"
                        /\ fps.pc[h] \in {"open_attach", "create_attach"}
                        /\ fps'.hd = fps.hd
               /\ ~InvalidSchema(fps.call[h].cls)
                     => fps'.ret.exc # "SmartFPSInitError"

(***************************************************************************)
(* C21: the class statement of a subclass whose attribute set differs from *)
(* the key set of its schema (no schema, a missing key, an extra key) or   *)
(* whose schema holds a malformed tuple never faults; the fault            *)
(* SmartFPSInitError is raised by every attempt to instantiate the class   *)
(* (cls(name), smartfps_downcast, create), without any instance being      *)
(* bound, and a class with a valid schema never raises it.                 *)
(***************************************************************************)
C21_FaultsAtInstantiation ==
    [][/\ (fps'.ret # fps.ret /\ fps'.ret.op = "class") => fps'.ret.exc = "none"
       /\ InstantiationReturns]_vars

\* F, whose tuple holds three integers, was defined and its instantiation on
\* an existing tree faulted
C21_Witness ==
    /\ "F" \in fps.classes
    /\ fps.ret.op = "open" /\ fps.ret.exc = "SmartFPSInitError"
    /\ fps.file # 0
    /\ ~fps.hd["g"].built

\* cls(name) on a subclass of SmartAttributesFPS leaves __new__ and __init__
OpenOfSmartClassSteps ==
    \A h \in FpsHandles :
        (fps.pc[h] = "open_attach" /\ fps'.pc[h] # "open_attach"
         /\ fps.call[h].cls \in SmartClasses)
            => IF InvalidSchema(fps.call[h].cls)
               THEN /\ fps'.pc[h] = "idle"
                    /\ fps'.ret.op = "open"
                    /\ fps'.ret.exc = "SmartFPSInitError"
                    /\ fps'.ret.attempts = 0
                    /\ fps'.hd = fps.hd
                    /\ fps'.res = fps.res
                    /\ fps'.file = fps.file
               ELSE IF fps.file = 0
               THEN /\ fps'.pc[h] = "idle"
                    /\ fps'.ret.exc = "FPSDoesntExistError"
                    /\ fps'.ret.attempts = 1
                    /\ fps'.hd = fps.hd
                    /\ fps'.res = fps.res
               ELSE /\ fps'.pc[h] = "open_schema"
                    /\ fps'.hd[h].fps = fps.file
                    /\ fps'.hd[h].cls = fps.call[h].cls

(***************************************************************************)
(* C25: instantiating a subclass of SmartAttributesFPS validates the       *)
(* schema before any attach to the named resource.  With an invalid schema *)
(* it raises SmartFPSInitError whether or not the resource exists, without *)
(* any attach attempt, without registering a parameter and without         *)
(* yielding an instance; with a valid schema and no resource under the     *)
(* name it raises FPSDoesntExistError.                                     *)
(***************************************************************************)
C25_ValidationBeforeAttach == [][OpenOfSmartClassSteps]_vars

\* the instantiation of a class with an invalid schema faulted on a name that
\* has no resource
C25_Witness ==
    /\ fps.ret.op = "open" /\ fps.ret.exc = "SmartFPSInitError"
    /\ fps.ret.attempts = 0
    /\ fps.file = 0

(***************************************************************************)
(* C28: create(name) on a subclass of SmartAttributesFPS whose schema is   *)
(* invalid raises SmartFPSInitError and leaves the backing resources as    *)
(* they were: the file of the name holds what it held when create began.   *)
(***************************************************************************)
C28_FailedCreateLeavesNothing ==
    /\ (fps.ret.op = "create" /\ fps.ret.exc = "none")
           => ~InvalidSchema(fps.ret.cls)
    /\ (fps.ret.op = "create" /\ fps.ret.exc = "SmartFPSInitError")
           => /\ InvalidSchema(fps.ret.cls)
              /\ fps.file = fps.ret.file0

(***************************************************************************)
(* fps.py: typed views.  G (gain: float, with its schema) is defined; both *)
(* handles create trees on G and on FPS, open the name as G and as FPS,    *)
(* downcast, and read and assign gain.  The attribute v.gain of a typed    *)
(* view is a property over FPS.__getitem__ and FPS.__setitem__, which are  *)
(* get_param and set_param.  A creation with force_recreate leaves the     *)
(* other handle on the former resource.                                    *)
(***************************************************************************)
ViewInit == xf = XfOff /\ ShmOff /\ fps = [FpsOff EXCEPT !.classes = {"G"}]

ViewNext ==
    \/ /\ FpsAllIdle
       /\ \E h \in FpsHandles :
             \/ \E cls \in {"G", "FPS"}, force \in BOOLEAN : FpsCreateStart(h, cls, force)
             \/ \E cls \in {"G", "FPS"} : FpsOpenStart(h, cls)
             \/ \E src \in FpsHandles \ {h} : SmartDowncastStart(h, "G", src)
             \/ \E value \in FpsValuesOf("gain") :
                   FpsParamStart(h, [op |-> "set_param", key |-> "gain", value |-> value])
             \/ FpsParamStart(h, [op |-> "get_param", key |-> "gain"])
    \/ \E h \in FpsHandles :
          \/ FpsCreateRemove(h)
          \/ FpsCreateAlloc(h)
          \/ FpsCreateAttach(h)
          \/ FpsCreateSchema(h)
          \/ FpsCreateAddName(h)
          \/ FpsCreateSetName(h)
          \/ FpsCreateHook(h)
          \/ FpsOpenAttach(h)
          \/ FpsOpenSchema(h)
          \/ FpsSetParamCall(h)
          \/ FpsGetParamCall(h)

SpecView == ViewInit /\ [][ViewNext]_vars

\* handle h is a typed view whose schema holds key
TypedViewOf(f, h, key) ==
    /\ f.hd[h].built
    /\ f.hd[h].cls \in SmartClasses
    /\ key \in DOMAIN DictMetadata(f.hd[h].cls)

\* the handles attached to the resource of handle h
HandlesOf(f, h) == {o \in FpsHandles : f.hd[o].built /\ f.hd[o].fps = f.hd[h].fps}

\* a typed view has assigned or read one of its attributes
TypedAccessReturns(every) ==
    (fps'.ret # fps.ret /\ fps'.ret.op \in {"set_param", "get_param"}
     /\ TypedViewOf(fps, fps'.ret.h, fps'.ret.key)) =>
        LET r == fps'.ret
            i == fps.hd[r.h].fps
        IN  /\ r.exc = "none"
            /\ r.op = "get_param" =>
                  /\ r.val = fps.res[i].entries[r.key].value
                  /\ \A o \in HandlesOf(fps, r.h) :
                        r.key \in DOMAIN fps.hd[o].key_types
                           => FpsGetParam(fps, o, r.key) = [val |-> r.val]
                  /\ fps'.res = fps.res
            /\ r.op = "set_param" =>
                  /\ \A o \in HandlesOf(fps', r.h) :
                        (every \/ r.key \in DOMAIN fps'.hd[o].key_types)
                           => FpsGetParam(fps', o, r.key) = [val |-> r.value]
                  /\ \A j \in DOMAIN fps.res : j # i => fps'.res[j] = fps.res[j]

\* a typed view has been opened on an existing resource
TypedOpenKeepsValues ==
    \A h \in FpsHandles :
        (fps.pc[h] \in {"open_attach", "open_schema"} /\ fps.call[h].cls \in SmartClasses)
            => \A j \in DOMAIN fps.res : \A k \in DOMAIN fps.res[j].entries :
                  /\ k \in DOMAIN fps'.res[j].entries
                  /\ fps'.res[j].entries[k] = fps.res[j].entries[k]

(***************************************************************************)
(* C22: for a typed view v attached to resource R and every schema key k,  *)
(* reading v.k returns the value a generic handle on R reads for k, and    *)
(* assigning v.k makes that value visible to get_param(k) on every handle  *)
(* of R; a typed view's access to a schema key never changes another       *)
(* resource.                                                               *)
(***************************************************************************)
C22_VisibleToEveryHandle == [][TypedAccessReturns(TRUE)]_vars

\* what holds of typed views: a read returns the value stored in the resource,
\* which is what get_param returns on every handle of the resource that knows
\* the key; an assignment is visible to those handles; opening a typed view
\* on an existing resource changes no stored value; views on different
\* resources do not touch each other's values
TypedViewsAgree ==
    [][TypedAccessReturns(FALSE) /\ TypedOpenKeepsValues]_vars

\* two views of class G on two resources hold different values of gain, and
\* the last read of one returned its own
TypedViewsOnTwoResources ==
    /\ FpsAllIdle
    /\ fps.ret.op = "get_param" /\ fps.ret.exc = "none"
    /\ fps.ret.h = "f" /\ fps.ret.val = 1
    /\ fps.hd["f"].built /\ fps.hd["g"].built
    /\ fps.hd["f"].cls = "G" /\ fps.hd["g"].cls = "G"
    /\ fps.hd["f"].fps # fps.hd["g"].fps
    /\ fps.res[fps.hd["f"].fps].entries["gain"].value = 1
    /\ fps.res[fps.hd["g"].fps].entries["gain"].value = 2

(***************************************************************************)
(* FPSManager (fps.py 183-250).  The manager looks resources up in the     *)
(* directory MILK_SHM_DIR by file name, so this part keeps several names:  *)
(* fps holds the directory (dir: name to resource, 0 when there is no      *)
(* file), the resources (res), every FPS object opened so far (objs), the  *)
(* manager's attributes (mgr), the position of its running call (pc, call) *)
(* and the last completed call (ret).  Names, file names, globs and the    *)
(* keyword string are sequences of characters.                             *)
(***************************************************************************)
MgrNames == {<<"a">>, <<"b">>, <<"a", ".", "b">>}

MgrNameGlobs == {<<"*">>, <<"b">>}

MgrKeywordGlobs == {<<"*">>, <<"x">>}

\* md.kwarray of a resource: the keyword tags between ':'
MgrKwArrays == {<<>>, <<":", "x", ":">>, <<":", "y", ":">>}

\* changes of the directory made by other processes
MaxMgrChanges == 1

\* calls made to the manager after its construction
MaxMgrCalls == 1

\* fnmatch.fnmatch(s, p), for patterns made of literals and '*'
RECURSIVE fnmatch(_, _)
fnmatch(s, p) ==
    IF p = <<>> THEN s = <<>>
    ELSE IF Head(p) = "*"
    THEN fnmatch(s, Tail(p)) \/ (s # <<>> /\ fnmatch(Tail(s), p))
    ELSE s # <<>> /\ Head(s) = Head(p) /\ fnmatch(Tail(s), Tail(p))

\* f'{name}.fps.shm'
FpsFileName(name) == name \o <<".", "fps", ".", "shm">>

\* glob.glob(MILK_SHM_DIR + f'/{fps_name_glob}.fps.shm') in directory dir, as
\* base names
GlobFpsFiles(dir, fps_name_glob) ==
    {FpsFileName(n) : n \in {m \in DOMAIN dir :
        dir[m] # 0 /\ fnmatch(FpsFileName(m), FpsFileName(fps_name_glob))}}

\* s.split(sep)[0]
RECURSIVE SplitHead(_, _)
SplitHead(s, sep) ==
    IF s = <<>> \/ Head(s) = sep THEN <<>>
    ELSE <<Head(s)>> \o SplitHead(Tail(s), sep)

\* s.strip(c)
RECURSIVE Strip(_, _)
Strip(s, c) ==
    IF s = <<>> THEN s
    ELSE IF Head(s) = c THEN Strip(Tail(s), c)
    ELSE IF s[Len(s)] = c THEN Strip(SubSeq(s, 1, Len(s) - 1), c)
    ELSE s

\* the set of the items of s.split(sep)
RECURSIVE SplitSet(_, _)
SplitSet(s, sep) ==
    LET head == SplitHead(s, sep)
    IN  IF Len(head) = Len(s) THEN {head}
        ELSE {head} \cup SplitSet(SubSeq(s, Len(head) + 2, Len(s)), sep)

\* the test of rescan_all that keeps a cached handle: kw_str is not empty and
\* one keyword matches fps_keyword_glob
KeywordsMatch(kwarray, fps_keyword_glob) ==
    LET kw_str == Strip(kwarray, ":")
    IN  /\ Len(kw_str) # 0
        /\ \E kw \in SplitSet(kw_str, ":") : fnmatch(kw, fps_keyword_glob)

MgrNone == [built |-> FALSE, fps_name_glob |-> <<>>, fps_keyword_glob |-> <<>>,
            fps_cache |-> <<>>]

MgrNoCall == [op |-> "none"]

\* an argument of rescan_all left out (None)
MgrNoGlob == <<"None">>

\* FPS(name) in directory f.dir: the object of a successful open
MgrOpened(f, name) ==
    [name |-> name, fps |-> f.dir[name], key_types |-> {"gain"}, disconnects |-> 0]

\* FPSManager.find_fps(name): the state after it and the fault it raised
find_fps(f, name) ==
    IF name \in DOMAIN f.mgr.fps_cache THEN [f |-> f, exc |-> "none"]
    ELSE IF name \in DOMAIN f.dir /\ f.dir[name] # 0
    THEN [f |-> [f EXCEPT !.objs = Append(@, MgrOpened(f, name)),
                          !.mgr.fps_cache = @ @@ (name :> Len(f.objs) + 1)],
          exc |-> "none"]
    ELSE [f |-> f, exc |-> "FPSDoesntExistError"]

\* fps.disconnect() on every object of the set ids
MgrDisconnect(objs, ids) ==
    [i \in DOMAIN objs |->
        IF i \in ids THEN [objs[i] EXCEPT !.disconnects = @ + 1] ELSE objs[i]]

\* the values of a function
MgrRange(fn) == {fn[k] : k \in DOMAIN fn}

\* a call of the manager ends; a fault raised out of __init__ leaves no manager
MgrFinish(f, exc) ==
    [f EXCEPT !.pc = "idle", !.call = MgrNoCall,
              !.mgr = IF f.call.op = "__init__"
                      THEN IF exc = "none" THEN [@ EXCEPT !.built = TRUE] ELSE MgrNone
                      ELSE @,
              !.ret = [f.call EXCEPT !.exc = exc] @@ [changes |-> f.changes]]

\* FPSManager(fps_name_glob, fps_keyword_glob) up to the call of rescan_all()
MgrConstruct(fps_name_glob, fps_keyword_glob) ==
    /\ fps.pc = "idle"
    /\ ~fps.mgr.built
    /\ fps.calls = 0
    /\ fps' = [fps EXCEPT
          !.mgr = [built |-> FALSE, fps_name_glob |-> fps_name_glob,
                   fps_keyword_glob |-> fps_keyword_glob, fps_cache |-> <<>>],
          !.pc = "purge",
          !.calls = 1,
          !.call = [op |-> "__init__", exc |-> "none",
                    fps_name_glob |-> fps_name_glob,
                    fps_keyword_glob |-> fps_keyword_glob,
                    cached0 |-> {}, objs0 |-> Len(fps.objs), changed |-> FALSE,
                    ret0 |-> fps.ret],
          !.ret = MgrNoCall]
    /\ UNCHANGED <<xf, shmVars>>

\* rescan_all(fps_name_glob, fps_keyword_glob) up to the call of purge_cache;
\* MgrNoGlob stands for an argument left out
MgrRescanStart(fps_name_glob, fps_keyword_glob) ==
    /\ fps.pc = "idle"
    /\ fps.mgr.built
    /\ fps.calls <= MaxMgrCalls
    /\ fps' = [fps EXCEPT
          !.pc = "purge",
          !.calls = @ + 1,
          !.call = [op |-> "rescan_all", exc |-> "none",
                    fps_name_glob |-> IF fps_name_glob = MgrNoGlob
                                      THEN fps.mgr.fps_name_glob ELSE fps_name_glob,
                    fps_keyword_glob |-> IF fps_keyword_glob = MgrNoGlob
                                         THEN fps.mgr.fps_keyword_glob
                                         ELSE fps_keyword_glob,
                    cached0 |-> MgrRange(fps.mgr.fps_cache),
                    objs0 |-> Len(fps.objs), changed |-> FALSE,
                    ret0 |-> fps.ret],
          !.ret = MgrNoCall]
    /\ UNCHANGED <<xf, shmVars>>

\* purge_cache(): every cached handle is disconnected, the cache is emptied
MgrPurge ==
    /\ fps.pc = "purge"
    /\ fps' = [fps EXCEPT
          !.objs = MgrDisconnect(@, MgrRange(fps.mgr.fps_cache)),
          !.mgr.fps_cache = <<>>,
          !.pc = "glob"]
    /\ UNCHANGED <<xf, shmVars>>

\* system_fps_files = glob.glob(...)
MgrGlob ==
    /\ fps.pc = "glob"
    /\ fps' = [fps EXCEPT
          !.call = @ @@ [system_fps_files |->
                            GlobFpsFiles(fps.dir, fps.call.fps_name_glob)],
          !.pc = "open"]
    /\ UNCHANGED <<xf, shmVars>>

\* one turn of the loop over system_fps_files:
\* self.find_fps(os.path.basename(fps_file).split('.')[0]); the list is in the
\* order glob gave it, which is any order
MgrOpenNext ==
    /\ fps.pc = "open"
    /\ IF fps.call.system_fps_files = {}
       THEN fps' = [fps EXCEPT !.pc = "filter"]
       ELSE \E fps_file \in fps.call.system_fps_files :
               LET found == find_fps(fps, SplitHead(fps_file, "."))
               IN  fps' = IF found.exc # "none" THEN MgrFinish(fps, found.exc)
                          ELSE [found.f EXCEPT !.call.system_fps_files = @ \ {fps_file}]
    /\ UNCHANGED <<xf, shmVars>>

\* the keyword filter of rescan_all: rm_keys, then pop and disconnect for each
MgrFilter ==
    /\ fps.pc = "filter"
    /\ LET cache == fps.mgr.fps_cache
           rm_keys == {name \in DOMAIN cache :
                          ~KeywordsMatch(fps.res[fps.objs[cache[name]].fps].kwarray,
                                         fps.call.fps_keyword_glob)}
           popped == [fps EXCEPT
                         !.objs = MgrDisconnect(@, {cache[name] : name \in rm_keys}),
                         !.mgr.fps_cache = [name \in DOMAIN cache \ rm_keys |-> cache[name]]]
       IN  fps' = MgrFinish(popped, "none")
    /\ UNCHANGED <<xf, shmVars>>

\* find_fps(name) called on the manager
MgrFindFps(name) ==
    /\ fps.pc = "idle"
    /\ fps.mgr.built
    /\ fps.calls <= MaxMgrCalls
    /\ LET found == find_fps(fps, name)
       IN  fps' = [found.f EXCEPT !.calls = @ + 1,
                                  !.ret = [op |-> "find_fps", exc |-> found.exc,
                                           name |-> name]]
    /\ UNCHANGED <<xf, shmVars>>

MgrRoutedOps == {"set_param", "get_param", "conf_start", "conf_stop", "run_start",
                 "run_stop"}

\* set_param, get_param, conf_start, conf_stop, run_start, run_stop of the
\* manager: self.find_fps(fps) and the call of the same name on the handle;
\* the control calls are made without timeout and get any status
MgrRouted(op, name, key, value) ==
    /\ fps.pc = "idle"
    /\ fps.mgr.built
    /\ fps.calls <= MaxMgrCalls
    /\ LET found == find_fps(fps, name)
           f == [found.f EXCEPT !.calls = @ + 1]
           record == [op |-> op, name |-> name]
       IN  IF found.exc # "none"
           THEN fps' = [f EXCEPT !.ret = record @@ [exc |-> found.exc]]
           ELSE LET o == f.objs[f.mgr.fps_cache[name]]
                IN  CASE op \in {"set_param", "get_param"} /\ key \notin o.key_types ->
                           fps' = [f EXCEPT !.ret = record @@ [exc |-> "ValueError"]]
                      [] op = "set_param" /\ key \in o.key_types ->
                           fps' = [f EXCEPT !.res[o.fps].gain = value,
                                            !.ret = record @@ [exc |-> "none"]]
                      [] op = "get_param" /\ key \in o.key_types ->
                           fps' = [f EXCEPT !.ret = record @@
                                     [exc |-> "none", val |-> f.res[o.fps].gain]]
                      [] OTHER ->
                           \E status \in FpsStatuses :
                              fps' = [f EXCEPT !.ret = record @@
                                        [exc |-> errno_raiser(status, op).err]]
    /\ UNCHANGED <<xf, shmVars>>

\* another process creates the resource of a name that has none, or removes
\* the file of a name
MgrExternal ==
    /\ fps.changes < MaxMgrChanges
    /\ \E name \in MgrNames :
          \/ /\ fps.dir[name] = 0
             /\ \E kwarray \in MgrKwArrays :
                   fps' = [fps EXCEPT
                       !.res = Append(@, [kwarray |-> kwarray, gain |-> 0]),
                       !.dir[name] = Len(fps.res) + 1,
                       !.changes = @ + 1,
                       !.call = IF fps.pc = "idle" THEN @ ELSE [@ EXCEPT !.changed = TRUE]]
          \/ /\ fps.dir[name] # 0
             /\ fps' = [fps EXCEPT
                   !.dir[name] = 0,
                   !.changes = @ + 1,
                   !.call = IF fps.pc = "idle" THEN @ ELSE [@ EXCEPT !.changed = TRUE]]
    /\ UNCHANGED <<xf, shmVars>>

\* the names in the order their resources are numbered at the beginning
MgrNameSeq == <<<<"a">>, <<"b">>, <<"a", ".", "b">>>>

MgrInit ==
    /\ xf = XfOff
    /\ ShmOff
    /\ \E present \in SUBSET (1..Len(MgrNameSeq)) :
       \E kw \in [1..Len(MgrNameSeq) -> MgrKwArrays] :
          /\ \A i \in 1..Len(MgrNameSeq) : i \notin present => kw[i] = <<>>
          /\ fps = [dir |-> [n \in MgrNames |->
                               LET i == CHOOSE j \in 1..Len(MgrNameSeq) : MgrNameSeq[j] = n
                               IN  IF i \in present THEN i ELSE 0],
                    res |-> [i \in 1..Len(MgrNameSeq) |-> [kwarray |-> kw[i], gain |-> 0]],
                    objs |-> <<>>,
                    mgr |-> MgrNone,
                    pc |-> "idle",
                    call |-> MgrNoCall,
                    ret |-> MgrNoCall,
                    calls |-> 0,
                    changes |-> 0]

MgrNext ==
    \/ \E ng \in MgrNameGlobs, kg \in MgrKeywordGlobs : MgrConstruct(ng, kg)
    \/ \E ng \in MgrNameGlobs \cup {MgrNoGlob}, kg \in MgrKeywordGlobs \cup {MgrNoGlob} :
          MgrRescanStart(ng, kg)
    \/ MgrPurge
    \/ MgrGlob
    \/ MgrOpenNext
    \/ MgrFilter
    \/ \E name \in MgrNames : MgrFindFps(name)
    \/ \E op \in MgrRoutedOps, name \in MgrNames, key \in {"gain", "nokey"} :
          MgrRouted(op, name, key, 1)
    \/ MgrExternal

SpecMgr == MgrInit /\ [][MgrNext]_vars

\* the resources rescan_all has to end with, among the names of the set names:
\* the file exists, the name matches the name glob and a keyword tag matches
\* the keyword glob
RescanExpected(f, names, fps_name_glob, fps_keyword_glob) ==
    {n \in names :
        /\ f.dir[n] # 0
        /\ fnmatch(n, fps_name_glob)
        /\ KeywordsMatch(f.res[f.dir[n]].kwarray, fps_keyword_glob)}

\* the purge comes first: once rescan_all is past purge_cache every handle
\* that was cached when it began is disconnected and no such handle is cached
RescanPurgesFirst ==
    fps'.pc \in {"glob", "open", "filter"} =>
        /\ \A i \in fps'.call.cached0 : fps'.objs[i].disconnects >= 1
        /\ MgrRange(fps'.mgr.fps_cache) \cap fps'.call.cached0 = {}
        /\ fps'.pc = "glob" => fps'.mgr.fps_cache = <<>>

\* rescan_all returns, no other process having changed the directory during
\* the call: what the cache holds, for the names of the set names
RescanReturns(names) ==
    (fps.pc = "filter" /\ fps'.pc = "idle" /\ ~fps.call.changed) =>
        LET c == fps.call
            cache == fps'.mgr.fps_cache
        IN  /\ DOMAIN cache \cap names =
                  RescanExpected(fps', names, c.fps_name_glob, c.fps_keyword_glob)
            /\ \A n \in DOMAIN cache :
                  /\ cache[n] > c.objs0
                  /\ fps'.objs[cache[n]].name = n
                  /\ fps'.objs[cache[n]].fps = fps'.dir[n]
                  /\ fps'.objs[cache[n]].disconnects = 0
                  /\ \A m \in DOMAIN cache : cache[m] = cache[n] => m = n
            \* the handles the keyword filter removed
            /\ \A i \in (c.objs0 + 1)..Len(fps'.objs) :
                  i \notin MgrRange(cache) => fps'.objs[i].disconnects = 1
            \* the rescan before, with the same globs and no change since
            /\ (/\ c.ret0.op \in {"__init__", "rescan_all"}
                /\ c.ret0.exc = "none"
                /\ c.ret0.fps_name_glob = c.fps_name_glob
                /\ c.ret0.fps_keyword_glob = c.fps_keyword_glob
                /\ ~c.ret0.changed
                /\ c.ret0.changes = fps.changes)
                  => DOMAIN cache = {fps.objs[i].name : i \in c.cached0}

\* no handle is ever disconnected twice
DisconnectedOnce == \A i \in DOMAIN fps'.objs : fps'.objs[i].disconnects <= 1

\* the names without '.'
MgrPlainNames == {n \in MgrNames : SplitHead(n, ".") = n}

(***************************************************************************)
(* C23: every rescan_all first disconnects every handle in the cache and   *)
(* empties the cache, and only then rebuilds it; when it returns, the      *)
(* cache holds exactly one freshly opened handle for each existing         *)
(* resource whose name matches the name glob and that has at least one     *)
(* keyword tag matching the keyword glob; every handle removed by the      *)
(* keyword filter is disconnected exactly once; two consecutive rescans    *)
(* with no external change give the same set of cached names.              *)
(***************************************************************************)
C23_Rescan ==
    [][RescanPurgesFirst /\ RescanReturns(MgrNames) /\ DisconnectedOnce]_vars

\* what holds of rescan_all: the same, for the resources whose name holds
\* no '.'
RescanOfPlainNames ==
    [][RescanPurgesFirst /\ RescanReturns(MgrPlainNames) /\ DisconnectedOnce]_vars

\* a second rescan has returned with a handle cached, after it disconnected a
\* handle of the first and the filter removed one of its own
RescanTwiceReached ==
    /\ fps.pc = "idle"
    /\ fps.ret.op = "rescan_all" /\ fps.ret.exc = "none"
    /\ fps.ret.cached0 # {}
    /\ fps.mgr.fps_cache # <<>>
    /\ \E i \in DOMAIN fps.objs :
          i > fps.ret.objs0 /\ fps.objs[i].disconnects = 1

\* the cache holds only what the manager's globs select
CacheWithinGlobs ==
    \A n \in DOMAIN fps.mgr.fps_cache :
        /\ fnmatch(n, fps.mgr.fps_name_glob)
        /\ KeywordsMatch(fps.res[fps.objs[fps.mgr.fps_cache[n]].fps].kwarray,
                         fps.mgr.fps_keyword_glob)

(***************************************************************************)
(* C27: after any sequence of FPSManager operations (construction,         *)
(* rescan_all, find_fps, set_param, get_param, conf_start, conf_stop,      *)
(* run_start, run_stop), every handle held in the cache has a name         *)
(* matching the manager's name glob and at least one keyword tag matching  *)
(* its keyword glob.                                                       *)
(***************************************************************************)
C27_CacheWithinGlobs == (fps.pc = "idle" /\ fps.mgr.built) => CacheWithinGlobs

\* what holds of the cache: it is within the manager's globs when the
\* construction or a rescan_all without arguments has just returned (the
\* globs of MgrNameGlobs hold no '.')
CacheWithinGlobsAfterRescan ==
    (/\ fps.pc = "idle" /\ fps.mgr.built
     /\ fps.ret.op \in {"__init__", "rescan_all"}
     /\ fps.ret.exc = "none"
     /\ fps.ret.fps_name_glob = fps.mgr.fps_name_glob
     /\ fps.ret.fps_keyword_glob = fps.mgr.fps_keyword_glob)
        => CacheWithinGlobs

=============================================================================
